---- MODULE Spec2Model ----
(***************************************************************************)
(* The request/response multiplexer of strymon_communication (rpc.rs) over *)
(* the framed channel of network/mod.rs.  Two endpoints, "client" and      *)
(* "server", each run multiplex(): a writer thread behind a Sender, a      *)
(* Resolver thread, an Incoming queue and a pending table.  The client     *)
(* issues requests through its Outgoing; either side answers the requests  *)
(* it finds on its Incoming stream.                                        *)
(***************************************************************************)
EXTENDS Naturals, Sequences, FiniteSets, TLC

\* ------------------------------------------------------------------ bounds
\* Requests issued in one round of the id counter through the id space.
MaxRequests == 2
\* Frames a peer that does not follow the protocol may put on the wire.
MaxInject == 1

\* The number of request ids.  RequestId is u32, so the program has 2^32 of
\* them, more than the model checker's integers hold; the model keeps the
\* cut of the usize counter to the id width and scales the width down.
IdSpace == 4

\* The connections the coordinator has accepted, one Dispatch each.
Conns == {"a", "b"}

Endpoints == {"client", "server"}
Peer(e) == IF e = "client" THEN "server" ELSE "client"
\* The workload: the call that draws counter value h sends Ping(h + 1), so
\* that calls in flight carry different payloads (Ping(1), Ping(2), ...).
Payloads(h) == {h + 1}

\* ------------------------------------------------------------ message frames
\* A MessageBuf is a sequence of typed sections; a section is a record with
\* its type tag, a number and a string (the unused one is 0 or "").
Sec(ty, n, s) == [ty |-> ty, n |-> n, s |-> s]
U8(n) == Sec("u8", n, "")
U32(n) == Sec("u32", n, "")
Str(s) == Sec("String", 0, s)
PingSec(x) == Sec("Ping", x, "")
ResultSec(tag, n) == Sec("Result", n, tag)
NoSec == Sec("none", 0, "")

\* MessageBuf::pop::<T>: the head section read as a T, or an error when it is
\* absent or of another type.
pop(ty, msg) ==
    IF msg # <<>> /\ msg[1].ty = ty
    THEN [ok |-> TRUE, val |-> msg[1], rest |-> Tail(msg)]
    ELSE [ok |-> FALSE, val |-> NoSec, rest |-> msg]

TypeRequest == 0
TypeResponse == 1

\* Type::from_u8
from_u8(num) ==
    CASE num = 0 -> "Request"
      [] num = 1 -> "Response"
      [] OTHER -> "InvalidData"

\* The frame Outgoing::request builds: kind, id, R::NAME, payload.
RequestFrame(id, x) == <<U8(TypeRequest), U32(id), Str("Ping"), PingSec(x)>>

\* The handler of tests::simple_ping: Ping(x) is answered with Pong(x + 1).
PingHandler(x) == x + 1

\* The frame Responder::respond builds: kind, id, result.
ResponseFrame(id, tag, n) == <<U8(TypeResponse), U32(id), ResultSec(tag, n)>>

\* ------------------------------------------------------------------- state
VARIABLES
    next_id,    \* Outgoing.next_id of the client: the usize counter
    calls,      \* per request() call h (the counter value it drew): id, payload, position
    chan,       \* per call h: the one-shot channel between the table entry and the Response
    pending,    \* per endpoint: the pending table, id -> call owning the stored sender
    sendq,      \* per endpoint: the FIFO between the Senders and the writer thread
    writer,     \* per endpoint: "running" | "exited"
    wire,       \* per endpoint: frames written to the socket towards it, not yet read
    shut,       \* per endpoint: its socket has been shut down
    resolver,   \* per endpoint: "running" | "exited"
    incoming,   \* per endpoint: the queue between the Resolver and Incoming
    seen,       \* per endpoint: what the Incoming stream has yielded so far
    held,       \* per endpoint: the Responders the application holds
    discarded,  \* per endpoint: ids logged by "dropping canceled response for"
    injected,   \* frames put on the wire by a peer outside the protocol
    written,    \* per endpoint: the frames its writer has written to the socket
    conn,       \* per coordinator connection, its Dispatch: "alive" | "failed" | "dropped"
    associated, \* per coordinator connection: Dispatch.associated, the executor ids
    consumed,   \* per coordinator connection: RequestBufs handed to Dispatch::dispatch
    tasks,      \* per coordinator connection: futures spawned, each holding a Responder
    replied,    \* per coordinator connection: frames its Responders have sent
    registered, \* per coordinator connection: ids add_executor returned, in call order
    released,   \* the coordinator's remove_executor calls, in call order
    reader,     \* per endpoint of a Channel: its reader thread, "running" | "exited"
    inbox,      \* per endpoint of a Channel: the slot between the reader and the Receiver
    yielded,    \* per endpoint of a Channel: what its Receiver has yielded so far
    sent,       \* per endpoint of a Channel: the frames passed to Sender::send, in order
    incoming_rx, \* per endpoint: Incoming.rx, the receiving end of the request queue
    outgoing,   \* per endpoint: its Outgoing handles, all clones taken together
    lock        \* the mutex of the client's pending table: free, or who holds it

\* The multiplexed connection, the coordinator's Dispatch instances, and the
\* reading half of a plain Channel.
rvars == <<next_id, calls, chan, pending, sendq, writer, wire, shut, resolver,
           incoming, seen, held, discarded, injected, written>>
dvars == <<conn, associated, consumed, tasks, replied, registered, released>>
nvars == <<reader, inbox, yielded, sent>>
hvars == <<incoming_rx, outgoing, lock>>
vars == <<next_id, calls, chan, pending, sendq, writer, wire, shut, resolver,
          incoming, seen, held, discarded, injected, written,
          conn, associated, consumed, tasks, replied, registered, released,
          reader, inbox, yielded, sent, incoming_rx, outgoing, lock>>

\* The one-shot channel: open (sender alive, nothing sent), sent (holds the
\* frame that was left after the kind and the id were popped; fid is the id
\* section that frame carried), closed (sender dropped without sending).
ChanOpen == [st |-> "open", msg |-> <<>>, fid |-> 0]
ChanSent(msg, fid) == [st |-> "sent", msg |-> msg, fid |-> fid]
ChanClosed == [st |-> "closed", msg |-> <<>>, fid |-> 0]

EmptyTable == [i \in {} |-> 0]
NoCalls == [h \in {} |-> 0]

\* HashMap::insert and HashMap::remove on a pending table.
TableInsert(t, id, h) == [i \in DOMAIN t \cup {id} |-> IF i = id THEN h ELSE t[i]]
TableRemove(t, id) == [i \in DOMAIN t \ {id} |-> t[i]]

\* Items of the Incoming queue: Ok(RequestBuf) or Err(io::Error).
BufItem(id, name, msg) == [kind |-> "buf", id |-> id, name |-> name, msg |-> msg]
ErrItem == [kind |-> "err", id |-> 0, name |-> "", msg |-> <<>>]
EndItem == [kind |-> "end", id |-> 0, name |-> "", msg |-> <<>>]
NotReadyItem == [kind |-> "notready", id |-> 0, name |-> "", msg |-> <<>>]

\* Dispatch::new on every accepted connection, and a coordinator without
\* executors.
DispatchInit ==
    /\ conn = [c \in Conns |-> "alive"]
    /\ associated = [c \in Conns |-> {}]
    /\ consumed = [c \in Conns |-> 0]
    /\ tasks = [c \in Conns |-> <<>>]
    /\ replied = [c \in Conns |-> <<>>]
    /\ registered = [c \in Conns |-> <<>>]
    /\ released = <<>>

\* The reading half of Network::channel on both ends of a connection.
ChannelInit ==
    /\ reader = [e \in Endpoints |-> "running"]
    /\ inbox = [e \in Endpoints |-> <<>>]
    /\ yielded = [e \in Endpoints |-> <<>>]
    /\ sent = [e \in Endpoints |-> <<>>]

\* The mutex around the pending table: nobody holds it, or the thread that
\* runs `by` for call h does (the Resolver thread holds it for no call).
Free == [by |-> "free", h |-> 0]
Holder(by, h) == [by |-> by, h |-> h]

\* multiplex returns one Outgoing and one Incoming per endpoint, both owned by
\* the application.
HandlesInit ==
    /\ incoming_rx = [e \in Endpoints |-> "alive"]
    /\ outgoing = [e \in Endpoints |-> "alive"]
    /\ lock = Free

Init ==
    /\ next_id = 0
    /\ calls = NoCalls
    /\ chan = NoCalls
    /\ pending = [e \in Endpoints |-> EmptyTable]
    /\ sendq = [e \in Endpoints |-> <<>>]
    /\ writer = [e \in Endpoints |-> "running"]
    /\ wire = [e \in Endpoints |-> <<>>]
    /\ shut = [e \in Endpoints |-> FALSE]
    /\ resolver = [e \in Endpoints |-> "running"]
    /\ incoming = [e \in Endpoints |-> <<>>]
    /\ seen = [e \in Endpoints |-> <<>>]
    /\ held = [e \in Endpoints |-> <<>>]
    /\ discarded = [e \in Endpoints |-> {}]
    /\ injected = 0
    /\ written = [e \in Endpoints |-> <<>>]
    /\ DispatchInit
    /\ ChannelInit
    /\ HandlesInit

\* ------------------------------------------------------------------ socket
\* A shutdown that reopens a socket that was shut down before.
shutdownToggles(s, e) == [s EXCEPT ![e] = ~@]

\* TcpStream::shutdown(Shutdown::Both) as the workers call it, its result
\* dropped: afterwards the socket of e is shut down, whatever it was before.
shutdown(s, e) == [s EXCEPT ![e] = TRUE]

\* ------------------------------------------------------- transport::Sender
\* A send that still queues the frame after the writer has gone.
SendQueuesAlways(e, msg) == Append(sendq[e], msg)

\* Sender::send: the frame joins the FIFO while the writer's receiving end
\* lives; the result of the channel send is dropped, so a frame sent after
\* the writer has exited is discarded.
Send(e, msg) ==
    IF writer[e] = "running" THEN Append(sendq[e], msg) ELSE sendq[e]

\* One turn of the writer thread: take the next frame off the FIFO and write
\* it to the socket; a failed write ends the loop and shuts the socket down.
\* A write to a socket whose peer has gone either fails or is lost.
WriterStep(e) ==
    /\ writer[e] = "running"
    /\ sendq[e] # <<>>
    /\ \/ /\ ~shut[e]
          /\ ~shut[Peer(e)]
          /\ wire' = [wire EXCEPT ![Peer(e)] = Append(@, Head(sendq[e]))]
          /\ written' = [written EXCEPT ![e] = Append(@, Head(sendq[e]))]
          /\ sendq' = [sendq EXCEPT ![e] = Tail(@)]
          /\ UNCHANGED <<writer, shut>>
       \/ /\ ~shut[e]
          /\ shut[Peer(e)]
          /\ sendq' = [sendq EXCEPT ![e] = Tail(@)]
          /\ UNCHANGED <<wire, writer, shut, written>>
       \/ /\ shut[e] \/ shut[Peer(e)]
          /\ writer' = [writer EXCEPT ![e] = "exited"]
          /\ shut' = shutdown(shut, e)
          /\ sendq' = [sendq EXCEPT ![e] = <<>>]
          /\ UNCHANGED <<wire, written>>
    /\ UNCHANGED <<next_id, calls, chan, pending, resolver, incoming, seen,
                   held, discarded, injected>>
    /\ UNCHANGED <<hvars, dvars, nvars>>

\* ----------------------------------------------------------------- Outgoing
\* Outgoing::next_id: fetch_add on the usize counter, cut to u32.
IdOf(counter) == counter % IdSpace

\* A request() whose next_id loads the counter and stores it back in two
\* steps: a call that starts while another has loaded but not yet stored
\* draws the same id.
RequestBeginRacy(x) ==
    /\ next_id % IdSpace < MaxRequests
    /\ next_id' = next_id + 1
    /\ calls' = [h \in 0..next_id |->
                   IF h = next_id
                   THEN [id |-> IF next_id > 0 /\ calls[next_id - 1].pc = "alloc"
                                THEN calls[next_id - 1].id ELSE IdOf(next_id),
                         x |-> x, pc |-> "alloc"]
                   ELSE calls[h]]
    /\ chan' = [h \in 0..next_id |-> IF h = next_id THEN ChanOpen ELSE chan[h]]
    /\ UNCHANGED <<pending, sendq, writer, wire, shut, resolver, incoming,
                   seen, held, discarded, injected, written>>
    /\ UNCHANGED <<hvars, dvars, nvars>>

\* The start of a request() call: the id is drawn and the one-shot channel and
\* the frame are made.  The call is named by the counter value it drew.
RequestBegin(x) ==
    /\ outgoing["client"] = "alive"
    /\ next_id % IdSpace < MaxRequests
    /\ next_id' = next_id + 1
    /\ calls' = [h \in 0..next_id |->
                   IF h = next_id
                   THEN [id |-> IdOf(next_id), x |-> x, pc |-> "alloc"]
                   ELSE calls[h]]
    /\ chan' = [h \in 0..next_id |-> IF h = next_id THEN ChanOpen ELSE chan[h]]
    /\ UNCHANGED <<pending, sendq, writer, wire, shut, resolver, incoming,
                   seen, held, discarded, injected, written>>
    /\ UNCHANGED <<hvars, dvars, nvars>>

\* Dropping a one-shot sender that was never used closes its channel.
DropSenders(ch, hs) ==
    [h \in DOMAIN ch |-> IF h \in hs /\ ch[h].st = "open" THEN ChanClosed ELSE ch[h]]

\* The handles whose senders a table holds under `id`.
Stored(t, id) == IF id \in DOMAIN t THEN {t[id]} ELSE {}

\* Step 2 of request(): the completion handle goes into the pending table
\* under the lock (an entry it replaces is dropped).
RequestInsert(h) ==
    /\ pending' = [pending EXCEPT !["client"] = TableInsert(@, calls[h].id, h)]
    /\ chan' = DropSenders(chan, Stored(pending["client"], calls[h].id) \ {h})
    /\ UNCHANGED sendq

\* Step 3 of request(): the frame is handed to the Sender.
RequestSend(h) ==
    /\ sendq' = [sendq EXCEPT !["client"] = Send("client", RequestFrame(calls[h].id, calls[h].x))]
    /\ UNCHANGED <<pending, chan>>

\* A request() that sends the frame first and registers the completion
\* handle afterwards.
requestSendsFirst(h) ==
    /\ \/ /\ calls[h].pc = "alloc"
          /\ RequestSend(h)
          /\ calls' = [calls EXCEPT ![h].pc = "inserted"]
       \/ /\ calls[h].pc = "inserted"
          /\ RequestInsert(h)
          /\ calls' = [calls EXCEPT ![h].pc = "returned"]
    /\ UNCHANGED <<next_id, writer, wire, shut, resolver, incoming, seen,
                   held, discarded, injected, written>>
    /\ UNCHANGED <<hvars, dvars, nvars>>

\* The rest of a request() call after the id was drawn: insert, then send,
\* then the Response is returned.
request(h) ==
    /\ \/ /\ calls[h].pc = "alloc"
          /\ RequestInsert(h)
          /\ calls' = [calls EXCEPT ![h].pc = "inserted"]
       \/ /\ calls[h].pc = "inserted"
          /\ RequestSend(h)
          /\ calls' = [calls EXCEPT ![h].pc = "returned"]
    /\ UNCHANGED <<next_id, writer, wire, shut, resolver, incoming, seen,
                   held, discarded, injected, written>>
    /\ UNCHANGED <<hvars, dvars, nvars>>

\* A drop that forgets to cancel: the entry stays in the table.
ResponseDropKeepsEntry(h) ==
    /\ calls[h].pc = "returned"
    /\ calls' = [calls EXCEPT ![h].pc = "dropped"]
    /\ UNCHANGED <<next_id, pending, chan, sendq, writer, wire, shut, resolver,
                   incoming, seen, held, discarded, injected, written>>
    /\ UNCHANGED <<hvars, dvars, nvars>>

\* A drop that empties the table instead of removing the one entry.
ResponseDropClearsTable(h) ==
    /\ calls[h].pc = "returned"
    /\ pending' = [pending EXCEPT !["client"] = EmptyTable]
    /\ chan' = DropSenders(chan, {pending["client"][i] : i \in DOMAIN pending["client"]})
    /\ calls' = [calls EXCEPT ![h].pc = "dropped"]
    /\ UNCHANGED <<next_id, sendq, writer, wire, shut, resolver, incoming,
                   seen, held, discarded, injected, written>>
    /\ UNCHANGED <<hvars, dvars, nvars>>

\* Drop for Response: the entry stored under the Response's id is removed
\* from the table, then the receiving end goes.
ResponseDrop(h) ==
    /\ calls[h].pc = "returned"
    /\ pending' = [pending EXCEPT !["client"] = TableRemove(@, calls[h].id)]
    /\ chan' = DropSenders(chan, Stored(pending["client"], calls[h].id))
    /\ calls' = [calls EXCEPT ![h].pc = "dropped"]
    /\ UNCHANGED <<next_id, sendq, writer, wire, shut, resolver, incoming,
                   seen, held, discarded, injected, written>>
    /\ UNCHANGED <<hvars, dvars, nvars>>

\* A poll that takes a payload it cannot decode for a success.
PollTrustsPayload(h) ==
    CASE chan[h].st = "open" -> [out |-> "NotReady", n |-> 0]
      [] chan[h].st = "closed" -> [out |-> "TransportError", n |-> 0]
      [] OTHER ->
           LET r == pop("Result", chan[h].msg) IN
           IF ~r.ok THEN [out |-> "Ready", n |-> 0]
           ELSE IF r.val.s = "Ok" THEN [out |-> "Ready", n |-> r.val.n]
           ELSE [out |-> "ApplicationError", n |-> r.val.n]

\* Response::poll: what the future yields in the current state of its channel.
Poll(h) ==
    CASE chan[h].st = "open" -> [out |-> "NotReady", n |-> 0]
      [] chan[h].st = "closed" -> [out |-> "TransportError", n |-> 0]
      [] OTHER ->
           LET r == pop("Result", chan[h].msg) IN
           IF ~r.ok THEN [out |-> "TransportError", n |-> 0]
           ELSE IF r.val.s = "Ok" THEN [out |-> "Ready", n |-> r.val.n]
           ELSE [out |-> "ApplicationError", n |-> r.val.n]

\* What is left of a response frame does not decode as a success: it is no
\* Result at all, or it is the Err of the application.
FailsToResolve(msg) ==
    LET r == pop("Result", msg) IN ~r.ok \/ r.val.s # "Ok"

\* ----------------------------------------------------------------- Resolver
\* The head of Resolver::decode: the kind byte and the id are popped; a
\* request also needs its name.  The result names the branch taken.
Decoded(msg) ==
    LET k == pop("u8", msg)
        ty == IF k.ok THEN from_u8(k.val.n) ELSE "InvalidData"
        i == pop("u32", k.rest)
        nm == pop("String", i.rest)
    IN  CASE ty = "InvalidData" \/ ~i.ok ->
               [branch |-> "Err", id |-> 0, name |-> "", rest |-> <<>>]
          [] ty = "Request" /\ ~nm.ok ->
               [branch |-> "Err", id |-> 0, name |-> "", rest |-> <<>>]
          [] ty = "Request" ->
               [branch |-> "Request", id |-> i.val.n, name |-> nm.val.s, rest |-> nm.rest]
          [] OTHER ->
               [branch |-> "Response", id |-> i.val.n, name |-> "", rest |-> i.rest]

\* The end of the Resolver thread: the socket is shut down and the Resolver
\* is dropped, which closes the Incoming queue; nothing reads the socket
\* afterwards.
ResolverExit(e) ==
    /\ resolver' = [resolver EXCEPT ![e] = "exited"]
    /\ shut' = shutdown(shut, e)
    /\ wire' = [wire EXCEPT ![e] = <<>>]

\* An error branch without the break: the error is announced and the loop
\* goes on with the next frame.
ResolverFailKeepsReading(e) ==
    /\ incoming' = [incoming EXCEPT ![e] = Append(@, ErrItem)]
    /\ wire' = [wire EXCEPT ![e] = IF @ = <<>> THEN @ ELSE Tail(@)]
    /\ UNCHANGED <<pending, chan, discarded, resolver, shut>>

\* Sending on the Incoming queue: the item is queued while the receiver
\* lives; once the receiver is dropped the send fails and the item is dropped
\* with it.
unbounded_send(e, item) ==
    IF incoming_rx[e] = "alive" THEN Append(incoming[e], item) ELSE incoming[e]

\* Resolver::dispatch on an error: it is announced once on the Incoming
\* queue (the result of that send is ignored) and the loop is left.
ResolverFail(e) ==
    /\ incoming' = [incoming EXCEPT ![e] = unbounded_send(e, ErrItem)]
    /\ ResolverExit(e)
    /\ UNCHANGED <<pending, chan, discarded>>

\* A Request branch that puts the RequestBuf at the front of the queue.
DecodeRequestAtFront(e, d) ==
    /\ incoming' = [incoming EXCEPT ![e] = <<BufItem(d.id, d.name, d.rest)>> \o @]
    /\ wire' = [wire EXCEPT ![e] = Tail(@)]
    /\ UNCHANGED <<pending, chan, discarded, resolver, shut>>

\* A Request branch that treats a dropped Incoming receiver as an error of
\* the connection.
DecodeRequestNeedsReceiver(e, d) ==
    IF incoming_rx[e] = "alive"
    THEN /\ incoming' = [incoming EXCEPT ![e] = Append(@, BufItem(d.id, d.name, d.rest))]
         /\ wire' = [wire EXCEPT ![e] = Tail(@)]
         /\ UNCHANGED <<pending, chan, discarded, resolver, shut>>
    ELSE ResolverFail(e)

\* The Request branch of decode: the RequestBuf goes onto the Incoming queue;
\* if the receiver of that queue was dropped, the failed send is logged and
\* the request is ignored.
DecodeRequest(e, d) ==
    /\ incoming' = [incoming EXCEPT ![e] =
                      unbounded_send(e, BufItem(d.id, d.name, d.rest))]
    /\ wire' = [wire EXCEPT ![e] = Tail(@)]
    /\ UNCHANGED <<pending, chan, discarded, resolver, shut>>

\* A Response branch that completes the sender but leaves the entry in the
\* table.
DecodeResponseKeepsEntry(e, d) ==
    /\ wire' = [wire EXCEPT ![e] = Tail(@)]
    /\ IF d.id \in DOMAIN pending[e] /\ calls[pending[e][d.id]].pc # "dropped"
       THEN /\ chan' = [chan EXCEPT ![pending[e][d.id]] = ChanSent(d.rest, d.id)]
            /\ UNCHANGED discarded
       ELSE /\ discarded' = [discarded EXCEPT ![e] = @ \cup {d.id}]
            /\ UNCHANGED chan
    /\ UNCHANGED <<pending, incoming, resolver, shut>>

\* A Response branch that takes a frame without a pending entry for an error
\* of the connection.
DecodeResponseUnknownFails(e, d) ==
    IF d.id \in DOMAIN pending[e]
    THEN /\ wire' = [wire EXCEPT ![e] = Tail(@)]
         /\ pending' = [pending EXCEPT ![e] = TableRemove(@, d.id)]
         /\ chan' = [chan EXCEPT ![pending[e][d.id]] = ChanSent(d.rest, d.id)]
         /\ UNCHANGED <<discarded, incoming, resolver, shut>>
    ELSE ResolverFail(e)

\* A Response branch that completes whichever entry comes first in the table
\* instead of the entry stored under the frame's id.
DecodeResponseAnyEntry(e, d) ==
    /\ wire' = [wire EXCEPT ![e] = Tail(@)]
    /\ IF DOMAIN pending[e] # {}
       THEN LET i == CHOOSE j \in DOMAIN pending[e] : \A k \in DOMAIN pending[e] : j <= k IN
            /\ pending' = [pending EXCEPT ![e] = TableRemove(@, i)]
            /\ chan' = [chan EXCEPT ![pending[e][i]] = ChanSent(d.rest, d.id)]
            /\ UNCHANGED discarded
       ELSE /\ discarded' = [discarded EXCEPT ![e] = @ \cup {d.id}]
            /\ UNCHANGED <<pending, chan>>
    /\ UNCHANGED <<incoming, resolver, shut>>

\* A Response branch that looks into the payload and takes one that is no
\* success for an error of the connection.
DecodeResponseChecksPayload(e, d) ==
    IF FailsToResolve(d.rest)
    THEN ResolverFail(e)
    ELSE /\ wire' = [wire EXCEPT ![e] = Tail(@)]
         /\ pending' = [pending EXCEPT ![e] = TableRemove(@, d.id)]
         /\ IF d.id \in DOMAIN pending[e] /\ calls[pending[e][d.id]].pc # "dropped"
            THEN /\ chan' = [chan EXCEPT ![pending[e][d.id]] = ChanSent(d.rest, d.id)]
                 /\ UNCHANGED discarded
            ELSE /\ discarded' = [discarded EXCEPT ![e] = @ \cup {d.id}]
                 /\ UNCHANGED chan
         /\ UNCHANGED <<incoming, resolver, shut>>

\* The Response branch of decode: under the lock the entry is removed and its
\* sender completed with the rest of the frame; without an entry (or with the
\* receiving end gone) the frame is logged and dropped.
DecodeResponse(e, d) ==
    /\ wire' = [wire EXCEPT ![e] = Tail(@)]
    /\ pending' = [pending EXCEPT ![e] = TableRemove(@, d.id)]
    /\ IF d.id \in DOMAIN pending[e] /\ calls[pending[e][d.id]].pc # "dropped"
       THEN /\ chan' = [chan EXCEPT ![pending[e][d.id]] = ChanSent(d.rest, d.id)]
            /\ UNCHANGED discarded
       ELSE /\ discarded' = [discarded EXCEPT ![e] = @ \cup {d.id}]
            /\ UNCHANGED chan
    /\ UNCHANGED <<incoming, resolver, shut>>

\* One turn of the loop of Resolver::dispatch with a full frame read.
ResolverFrame(e) ==
    /\ resolver[e] = "running"
    /\ wire[e] # <<>>
    /\ LET d == Decoded(Head(wire[e])) IN
         \/ d.branch = "Request" /\ DecodeRequest(e, d)
         \/ d.branch = "Response" /\ DecodeResponse(e, d)
         \/ d.branch = "Err" /\ ResolverFail(e)
    /\ UNCHANGED <<next_id, calls, sendq, writer, seen, held, injected, written>>
    /\ UNCHANGED <<hvars, dvars, nvars>>

\* The read returns Ok(None): the remote end closed the connection (all it
\* wrote has been read), or this socket was shut down by the local writer.
ResolverEof(e) ==
    /\ resolver[e] = "running"
    /\ shut[e] \/ (shut[Peer(e)] /\ wire[e] = <<>>)
    /\ ResolverExit(e)
    /\ UNCHANGED <<next_id, calls, chan, pending, sendq, writer, incoming,
                   seen, held, discarded, injected, written>>
    /\ UNCHANGED <<hvars, dvars, nvars>>

\* The read returns Err on a connection neither side has closed: a reset or
\* a truncated frame.
ResolverIoError(e) ==
    /\ resolver[e] = "running"
    /\ ~shut[e]
    /\ ~shut[Peer(e)]
    /\ ResolverFail(e)
    /\ UNCHANGED <<next_id, calls, sendq, writer, seen, held, injected, written>>
    /\ UNCHANGED <<hvars, dvars, nvars>>

\* ------------------------------------------------- Incoming and Responder
\* RequestBuf::decode::<Ping> followed by keeping the Responder: the payload
\* is popped as a Ping; a buffer that does not decode is dropped.
Responders(item) ==
    LET p == pop("Ping", item.msg) IN
    IF item.kind = "buf" /\ p.ok THEN <<[id |-> item.id, x |-> p.val.n]>> ELSE <<>>

\* What Incoming::poll returns in the current state: the next item of the
\* queue, the end of the stream once the queue is empty and its sender (the
\* Resolver) is gone, or not ready.
IncomingPoll(e) ==
    CASE incoming[e] # <<>> -> Head(incoming[e])
      [] resolver[e] = "exited" -> EndItem
      [] OTHER -> NotReadyItem

\* Incoming::poll yields the next item of the queue; the application decodes
\* a RequestBuf and keeps its Responder.
IncomingNext(e) ==
    /\ incoming_rx[e] = "alive"
    /\ incoming[e] # <<>>
    /\ incoming' = [incoming EXCEPT ![e] = Tail(@)]
    /\ seen' = [seen EXCEPT ![e] = Append(@, Head(incoming[e]))]
    /\ held' = [held EXCEPT ![e] = @ \o Responders(Head(incoming[e]))]
    /\ UNCHANGED <<next_id, calls, chan, pending, sendq, writer, wire, shut,
                   resolver, discarded, injected, written>>
    /\ UNCHANGED <<hvars, dvars, nvars>>

RemoveAt(q, i) == [j \in 1..(Len(q) - 1) |-> IF j < i THEN q[j] ELSE q[j + 1]]

\* A Responder that answers under the id of the oldest request still held
\* instead of the id of its own request.
RespondUnderOldestId(e, i) ==
    /\ i \in 1..Len(held[e])
    /\ sendq' = [sendq EXCEPT ![e] =
                   Send(e, ResponseFrame(held[e][1].id, "Ok", PingHandler(held[e][i].x)))]
    /\ held' = [held EXCEPT ![e] = RemoveAt(@, i)]
    /\ UNCHANGED <<next_id, calls, chan, pending, writer, wire, shut, resolver,
                   incoming, seen, discarded, injected, written>>
    /\ UNCHANGED <<hvars, dvars, nvars>>

\* Responder::respond with the handler's result: the response frame is sent
\* through the origin Sender and the Responder is consumed.
Respond(e, i) ==
    /\ i \in 1..Len(held[e])
    /\ sendq' = [sendq EXCEPT ![e] =
                   Send(e, ResponseFrame(held[e][i].id, "Ok", PingHandler(held[e][i].x)))]
    /\ held' = [held EXCEPT ![e] = RemoveAt(@, i)]
    /\ UNCHANGED <<next_id, calls, chan, pending, writer, wire, shut, resolver,
                   incoming, seen, discarded, injected, written>>
    /\ UNCHANGED <<hvars, dvars, nvars>>

\* Responder::respond with Err(error): a handler that refuses the request
\* answers with the application's error, here the request's own payload.
RespondError(e, i) ==
    /\ i \in 1..Len(held[e])
    /\ sendq' = [sendq EXCEPT ![e] =
                   Send(e, ResponseFrame(held[e][i].id, "Err", held[e][i].x))]
    /\ held' = [held EXCEPT ![e] = RemoveAt(@, i)]
    /\ UNCHANGED <<next_id, calls, chan, pending, writer, wire, shut, resolver,
                   incoming, seen, discarded, injected, written>>
    /\ UNCHANGED <<hvars, dvars, nvars>>

\* -------------------------------------------------------------- environment
\* The socket of an endpoint is closed from outside its workers (its process
\* ends, or the peer is not this program and hangs up).
SocketClosed(e) ==
    /\ ~shut[e]
    /\ ~shut[Peer(e)]
    /\ shut' = [shut EXCEPT ![e] = TRUE]
    /\ UNCHANGED <<next_id, calls, chan, pending, sendq, writer, wire,
                   resolver, incoming, seen, held, discarded, injected, written>>
    /\ UNCHANGED <<hvars, dvars, nvars>>

\* What a peer that does not follow the protocol may send to the client:
\* responses nobody asked for or sent twice (their result, Ok(0), is one no
\* Ping handler produces), a request of its own, and frames that do not
\* decode: a kind byte that is neither 0 nor 1, no id, a request without name.
InjectFrames ==
    {ResponseFrame(id, "Ok", 0) : id \in 0..MaxRequests}
    \cup {RequestFrame(0, 1)}
    \cup {<<U8(2), U32(0)>>, <<U8(TypeResponse)>>, <<U8(TypeRequest), U32(0)>>}

\* Such a frame arrives on the client's socket.
Inject(f) ==
    /\ injected < MaxInject
    /\ ~shut["client"]
    /\ ~shut["server"]
    /\ injected' = injected + 1
    /\ wire' = [wire EXCEPT !["client"] = Append(@, f)]
    /\ UNCHANGED <<next_id, calls, chan, pending, sendq, writer, shut,
                   resolver, incoming, seen, held, discarded, written>>
    /\ UNCHANGED <<hvars, dvars, nvars>>

\* Response frames whose payload is not a Result: a frame that ends after the
\* id, and one that carries a Ping where the result belongs.
UndecodableAnswers ==
    {<<U8(TypeResponse), U32(id)>> : id \in 0..(MaxRequests - 1)}
    \cup {<<U8(TypeResponse), U32(id), PingSec(0)>> : id \in 0..(MaxRequests - 1)}

\* ------------------------------------------------------------ specification
Next ==
    \/ \E x \in Payloads(next_id) : RequestBegin(x)
    \/ \E h \in DOMAIN calls : request(h)
    \/ \E h \in DOMAIN calls : ResponseDrop(h)
    \/ \E e \in Endpoints : WriterStep(e)
    \/ \E e \in Endpoints : ResolverFrame(e)
    \/ \E e \in Endpoints : ResolverEof(e)
    \/ \E e \in Endpoints : ResolverIoError(e)
    \/ \E e \in Endpoints : IncomingNext(e)
    \/ \E e \in Endpoints : \E i \in 1..Len(held[e]) : Respond(e, i)
    \/ \E e \in Endpoints : SocketClosed(e)
    \/ \E f \in InjectFrames : Inject(f)

Spec == Init /\ [][Next]_vars

\* ------------------------------------------------------------------ helpers
Range(q) == {q[k] : k \in 1..Len(q)}

\* The result the peer's Responder produces for call h.
HonestReply(h) == <<ResultSec("Ok", PingHandler(calls[h].x))>>
\* The result carried by the frames of InjectFrames.
ForgedReply == <<ResultSec("Ok", 0)>>

\* -------------------------------------------------------------------- C1
\* C1: a Response is only ever completed with a response frame whose id
\* section equals its own id, and what it holds is what the peer's Responder
\* produced for its own request (or what a peer outside the protocol sent
\* under that id): never the result of another request.
C1_ResponseMatchesId ==
    \A h \in DOMAIN calls :
        chan[h].st = "sent" =>
            /\ chan[h].fid = calls[h].id
            /\ chan[h].msg \in {HonestReply(h), ForgedReply}

\* Two calls in flight together, answered in the reverse order, each
\* resolved to the result of its own request.
C1_Witness ==
    /\ DOMAIN calls = {0, 1}
    /\ Poll(0) = [out |-> "Ready", n |-> PingHandler(1)]
    /\ Poll(1) = [out |-> "Ready", n |-> PingHandler(2)]
    /\ Len(written["server"]) = 2
    /\ written["server"][1] = ResponseFrame(1, "Ok", PingHandler(2))
    /\ written["server"][2] = ResponseFrame(0, "Ok", PingHandler(1))

\* -------------------------------------------------------------------- C2
\* C2: every entry of the pending table belongs to a Response that is neither
\* dropped nor completed; a dropped Response has no entry under its id, and
\* once every Response is dropped or completed the table is empty.
C2_NoStaleEntry ==
    /\ \A i \in DOMAIN pending["client"] :
           LET h == pending["client"][i] IN
           /\ calls[h].id = i
           /\ calls[h].pc \in {"inserted", "returned"}
           /\ chan[h].st = "open"
    /\ \A h \in DOMAIN calls :
           calls[h].pc = "dropped" => calls[h].id \notin DOMAIN pending["client"]
    /\ (\A h \in DOMAIN calls : calls[h].pc = "dropped" \/ chan[h].st = "sent")
           => pending["client"] = EmptyTable

\* A Response was dropped, the peer's answer to it arrived afterwards and was
\* discarded, the other Response was completed, and the table is empty.
C2_Witness ==
    /\ DOMAIN calls = {0, 1}
    /\ calls[0].pc = "dropped"
    /\ chan[0].st = "closed"
    /\ 0 \in discarded["client"]
    /\ injected = 0
    /\ chan[1].st = "sent"
    /\ pending["client"] = EmptyTable

\* -------------------------------------------------------------------- C4
\* The entry of call h has been inserted: it is in the table, or it was taken
\* out by completion or by cancellation.
Inserted(h) ==
    \/ Stored(pending["client"], calls[h].id) = {h}
    \/ chan[h].st # "open"
    \/ calls[h].pc = "dropped"

IsResponse(f) == Decoded(f).branch = "Response"

\* C4: a request frame is handed to the Sender only after its entry was
\* inserted, so every response a Responder makes for an id (queued at the
\* server or written to the socket) finds the entry inserted.
C4_InsertBeforeSend ==
    /\ \A h \in DOMAIN calls :
           RequestFrame(calls[h].id, calls[h].x)
               \in Range(sendq["client"]) \cup Range(written["client"])
           => Inserted(h)
    /\ \A f \in Range(sendq["server"]) \cup Range(written["server"]) :
           IsResponse(f) =>
               \E h \in DOMAIN calls : calls[h].id = Decoded(f).id /\ Inserted(h)

\* The Resolver is about to process the Responder's answer to a call whose
\* entry is in the table.
C4_Witness ==
    /\ wire["client"] # <<>>
    /\ 0 \in DOMAIN calls
    /\ Head(wire["client"]) = ResponseFrame(calls[0].id, "Ok", PingHandler(calls[0].x))
    /\ Stored(pending["client"], calls[0].id) = {0}
    /\ resolver["client"] = "running"

\* -------------------------------------------------------------------- C5
ResponsesFor(q, id) == {k \in 1..Len(q) : IsResponse(q[k]) /\ Decoded(q[k]).id = id}

\* A Responder answers once: the server sends at most one response per id.
C5_OneFramePerResponder ==
    \A h \in DOMAIN calls :
        Cardinality(ResponsesFor(sendq["server"] \o written["server"], calls[h].id)) <= 1

\* A completed Response keeps the value it was completed with.
C5_CompletedOnce ==
    \A h \in DOMAIN calls : chan[h].st = "sent" => chan'[h] = chan[h]

\* C5: each request is completed at most once: a Responder sends one frame,
\* and a second response frame with the same id does not reach the Response.
C5_AtMostOnce == [](C5_OneFramePerResponder) /\ [][C5_CompletedOnce]_vars

\* A Response completed by the Responder's answer, still held, after which a
\* second frame with its id was read and discarded.
C5_Witness ==
    /\ 0 \in DOMAIN calls
    /\ calls[0].pc = "returned"
    /\ chan[0] = ChanSent(HonestReply(0), calls[0].id)
    /\ calls[0].id \in discarded["client"]
    /\ injected = 1

\* -------------------------------------------------------------------- C6
\* The Resolver of e reads a response frame whose id has no entry.
ReadsUnknownResponse(e) ==
    /\ ResolverFrame(e)
    /\ Decoded(Head(wire[e])).branch = "Response"
    /\ Decoded(Head(wire[e])).id \notin DOMAIN pending[e]

\* C6: a response frame whose id is not pending is discarded: the tables,
\* the Responses, the Incoming queues and the sockets stay as they are and
\* the Resolver goes on with the next frame.
C6_UnknownIdDiscarded ==
    [][\A e \in Endpoints :
         ReadsUnknownResponse(e) =>
             /\ pending' = pending
             /\ chan' = chan
             /\ incoming' = incoming
             /\ seen' = seen
             /\ resolver' = resolver
             /\ shut' = shut
             /\ wire'[e] = Tail(wire[e])]_vars

\* A response for an id that was never issued has been discarded while a
\* request is outstanding and the Resolver is running.
C6_Witness ==
    /\ MaxRequests \in discarded["client"]
    /\ resolver["client"] = "running"
    /\ 0 \in DOMAIN calls
    /\ Stored(pending["client"], calls[0].id) = {0}
    /\ chan[0].st = "open"
    /\ incoming["client"] = <<>>
    /\ seen["client"] = <<>>

\* -------------------------------------------------------------------- C7
\* Everything the Resolver of e has pushed onto its Incoming queue.
Pushed(e) == seen[e] \o incoming[e]

\* The frames a Resolver cannot decode.
BadFrames == {<<U8(2), U32(0)>>, <<U8(TypeResponse)>>, <<U8(TypeRequest), U32(0)>>, <<>>}

\* An error on the queue is its last item, and the Resolver that pushed it
\* has stopped and shut the socket down; once it was yielded the stream ends.
C7_ErrorIsLast ==
    /\ \A f \in BadFrames : Decoded(f).branch = "Err"
    /\ \A e \in Endpoints :
        /\ \A k \in 1..Len(Pushed(e)) :
             Pushed(e)[k].kind = "err" =>
                 k = Len(Pushed(e)) /\ resolver[e] = "exited" /\ shut[e]
        /\ (seen[e] # <<>> /\ incoming[e] = <<>>) =>
             (seen[e][Len(seen[e])].kind = "err" => IncomingPoll(e) = EndItem)

\* The Resolver of e meets a frame it cannot decode, or a failed read.
ResolverMeetsError(e) ==
    \/ ResolverFrame(e) /\ Decoded(Head(wire[e])).branch = "Err"
    \/ ResolverIoError(e)

C7_ErrorStops ==
    \A e \in Endpoints :
        ResolverMeetsError(e) =>
            /\ incoming'[e] = Append(incoming[e], ErrItem)
            /\ resolver'[e] = "exited"
            /\ shut'[e]

\* C7: a frame that does not decode or a failed read puts one error on the
\* Incoming queue, stops the Resolver, shuts the socket down and closes the
\* queue: the consumer sees that error and nothing after it.
C7_SingleError == [](C7_ErrorIsLast) /\ [][C7_ErrorStops]_vars

\* The server's stream yielded a RequestBuf and then the error of a failed
\* read; the client's stream yielded the error of a frame that did not
\* decode; both streams have ended.
C7_Witness ==
    /\ Len(seen["server"]) = 2
    /\ seen["server"][1].kind = "buf"
    /\ seen["server"][2] = ErrItem
    /\ IncomingPoll("server") = EndItem
    /\ seen["client"] = <<ErrItem>>
    /\ IncomingPoll("client") = EndItem
    /\ injected = 1

\* -------------------------------------------------------------------- C8
\* The RequestBuf the Resolver makes of a request frame.
BufOf(f) == BufItem(Decoded(f).id, Decoded(f).name, Decoded(f).rest)
BufsOf(q) == [k \in 1..Len(q) |-> BufOf(q[k])]
IsPrefix(p, q) == Len(p) <= Len(q) /\ \A k \in 1..Len(p) : p[k] = q[k]
HasError(q) == \E k \in 1..Len(q) : q[k].kind = "err"
IsRequest(f) == Decoded(f).branch = "Request"
\* The RequestBufs of the request frames the client has written, in order.
RequestsWritten == BufsOf(SelectSeq(written["client"], IsRequest))

\* What the server's Incoming has yielded and still queues is, in order, a
\* prefix of the request frames the client wrote (with at most an error
\* at its end).
C8_InOrder ==
    LET all == Pushed("server")
        bufs == IF HasError(all) THEN SubSeq(all, 1, Len(all) - 1) ELSE all
    IN  IsPrefix(bufs, RequestsWritten)

\* When the server's Resolver reads the end of the stream of a peer that
\* closed, every request frame the peer wrote has been pushed, and no error.
C8_AllAtEof ==
    (ResolverEof("server") /\ ~shut["server"]) =>
        /\ Pushed("server") = RequestsWritten
        /\ incoming'["server"] = incoming["server"]

\* Once the Resolver has exited nothing more is pushed: the queue only
\* drains into what the stream yields.
C8_ClosedQueue ==
    resolver["server"] = "exited" =>
        /\ Pushed("server")' = Pushed("server")
        /\ resolver'["server"] = "exited"

\* C8: N request frames followed by an orderly close are yielded as N
\* RequestBufs in the order sent, then the stream ends, without an error.
C8_RequestsThenEnd ==
    [](C8_InOrder) /\ [][C8_AllAtEof]_vars /\ [][C8_ClosedQueue]_vars

\* The client wrote two requests and closed; the server's stream yielded
\* both in order and has ended, the server having answered nothing.
C8_Witness ==
    /\ Len(written["client"]) = 2
    /\ Len(seen["server"]) = 2
    /\ seen["server"] = RequestsWritten
    /\ seen["server"][1].id = 0
    /\ seen["server"][2].id = 1
    /\ IncomingPoll("server") = EndItem
    /\ Len(held["server"]) = 2
    /\ writer["server"] = "running"

\* ---------------------------------------------------------------- liveness
\* The connection without a peer outside the protocol and without dropped
\* Responses: requests, the workers of both endpoints, the application that
\* answers what it receives, and the ways the connection ends.
NextLive ==
    \/ \E x \in Payloads(next_id) : RequestBegin(x)
    \/ \E h \in DOMAIN calls : request(h)
    \/ \E e \in Endpoints : WriterStep(e)
    \/ \E e \in Endpoints : ResolverFrame(e)
    \/ \E e \in Endpoints : ResolverEof(e)
    \/ \E e \in Endpoints : ResolverIoError(e)
    \/ \E e \in Endpoints : IncomingNext(e)
    \/ \E e \in Endpoints : \E i \in 1..Len(held[e]) : Respond(e, i)
    \/ \E e \in Endpoints : SocketClosed(e)

\* Every thread keeps running: a request() call that has begun goes on to
\* its end, the writer and the Resolver of each endpoint take their next
\* turn, and the application polls its Incoming stream and answers the
\* requests it holds.
Fairness ==
    /\ WF_vars(\E h \in DOMAIN calls : request(h))
    /\ \A e \in Endpoints :
        /\ WF_vars(WriterStep(e))
        /\ WF_vars(ResolverFrame(e))
        /\ WF_vars(ResolverEof(e))
        /\ WF_vars(IncomingNext(e))
        /\ WF_vars(\E i \in 1..Len(held[e]) : Respond(e, i))

LiveSpec == Init /\ [][NextLive]_vars /\ Fairness

Calls == 0..(MaxRequests - 1)
Outstanding(h) == h \in DOMAIN calls /\ calls[h].pc = "returned" /\ chan[h].st = "open"
Failed(h) == h \in DOMAIN calls /\ Poll(h).out = "TransportError"
ConnectionClosed == \E e \in Endpoints : shut[e]

\* -------------------------------------------------------------------- C3
\* C3: once the connection has closed, every outstanding Response
\* eventually completes with a transport error.
C3_ClosedFailsOutstanding ==
    \A h \in Calls : (Outstanding(h) /\ resolver["client"] = "exited") ~> Failed(h)

\* The client's Resolver has exited and its socket is shut down, nothing is
\* queued or in flight, and the entry of an outstanding Response is still in
\* the table with its sender: the Response polls as not ready.
C3_Witness ==
    /\ resolver["client"] = "exited"
    /\ shut["client"]
    /\ Outstanding(0)
    /\ Stored(pending["client"], calls[0].id) = {0}
    /\ Poll(0).out = "NotReady"
    /\ sendq["client"] = <<>>
    /\ wire["client"] = <<>>

\* -------------------------------------------------------------------- C9
\* C9: a request() issued after the peer has closed the connection returns
\* a Response that eventually fails with a transport error.
C9_LateRequestFails ==
    \A h \in Calls :
        [](((h \notin DOMAIN calls) /\ shut["server"])
              => [](Outstanding(h) => <>Failed(h)))

\* ------------------------------------------------------------------- C10
Resolved(h) ==
    h \in DOMAIN calls /\ Poll(h) = [out |-> "Ready", n |-> PingHandler(calls[h].x)]

\* C10: while the connection stays open, every Response eventually resolves
\* to the value the server computed from its own request, in whatever order
\* the server answers.
C10_EveryResponseResolves ==
    \A h \in Calls : (h \in DOMAIN calls) ~> (Resolved(h) \/ ConnectionClosed)

\* Both calls resolved over an open connection, the server having answered
\* the second request first.
C10_Witness ==
    /\ Resolved(0)
    /\ Resolved(1)
    /\ ~ConnectionClosed
    /\ Len(written["server"]) = 2
    /\ Decoded(written["server"][1]).id = calls[1].id

\* ------------------------------------------------- late in the connection
\* The connection after the id counter has gone once through the id space:
\* IdSpace requests were issued; the server still holds the Responder of the
\* first, and answered the others, whose Responses resolved and were dropped.
LateInit ==
    /\ next_id = IdSpace
    /\ calls = [h \in 0..(IdSpace - 1) |->
                  [id |-> IdOf(h), x |-> h + 1,
                   pc |-> IF h = 0 THEN "returned" ELSE "dropped"]]
    /\ chan = [h \in 0..(IdSpace - 1) |->
                 IF h = 0 THEN ChanOpen
                 ELSE ChanSent(<<ResultSec("Ok", PingHandler(h + 1))>>, IdOf(h))]
    /\ pending = [e \in Endpoints |->
                    IF e = "client" THEN TableInsert(EmptyTable, 0, 0) ELSE EmptyTable]
    /\ sendq = [e \in Endpoints |-> <<>>]
    /\ writer = [e \in Endpoints |-> "running"]
    /\ wire = [e \in Endpoints |-> <<>>]
    /\ shut = [e \in Endpoints |-> FALSE]
    /\ resolver = [e \in Endpoints |-> "running"]
    /\ incoming = [e \in Endpoints |-> <<>>]
    /\ seen = [e \in Endpoints |->
                 IF e = "server"
                 THEN [k \in 1..IdSpace |-> BufItem(IdOf(k - 1), "Ping", <<PingSec(k)>>)]
                 ELSE <<>>]
    /\ held = [e \in Endpoints |->
                 IF e = "server" THEN <<[id |-> 0, x |-> 1]>> ELSE <<>>]
    /\ discarded = [e \in Endpoints |-> {}]
    /\ injected = 0
    /\ written = [e \in Endpoints |->
                    IF e = "client"
                    THEN [k \in 1..IdSpace |-> RequestFrame(IdOf(k - 1), k)]
                    ELSE [k \in 1..(IdSpace - 1) |->
                            ResponseFrame(IdOf(k), "Ok", PingHandler(k + 1))]]
    /\ DispatchInit
    /\ ChannelInit
    /\ HandlesInit

\* From there on: further requests, the workers of both endpoints, a server
\* application that answers with a result or with an error, Responses that
\* are dropped, and a peer that answers with something that is no result.
NextLate ==
    \/ \E x \in Payloads(next_id) : RequestBegin(x)
    \/ \E h \in DOMAIN calls : request(h)
    \/ \E h \in DOMAIN calls : ResponseDrop(h)
    \/ \E e \in Endpoints : WriterStep(e)
    \/ \E e \in Endpoints : ResolverFrame(e)
    \/ \E e \in Endpoints : IncomingNext(e)
    \/ \E e \in Endpoints : \E i \in 1..Len(held[e]) : Respond(e, i)
    \/ \E e \in Endpoints : \E i \in 1..Len(held[e]) : RespondError(e, i)
    \/ \E f \in UndecodableAnswers : Inject(f)

LateSpec == LateInit /\ [][NextLate]_vars

\* ------------------------------------------------------------------- C11
\* The Responses the client still holds.
Live == {h \in DOMAIN calls : calls[h].pc = "returned"}
\* The payload delivered to call h is a result with this tag.
Delivered(h, tag) ==
    /\ chan[h].st = "sent"
    /\ chan[h].msg # <<>>
    /\ chan[h].msg[1].ty = "Result"
    /\ chan[h].msg[1].s = tag

\* The number in the first section of what was delivered to call h.
DeliveredN(h) == IF chan[h].msg # <<>> THEN chan[h].msg[1].n ELSE 0

\* C11: polling a Response yields one of four outcomes, fixed by its one-shot
\* channel: not ready while nothing was delivered and the sender is alive,
\* the success of a delivered Ok, the application error of a delivered Err, a
\* transport error for a payload that is no result or a cancelled channel.
C11_PollOutcomes ==
    \A h \in Live :
        /\ chan[h].st = "open" <=> Poll(h) = [out |-> "NotReady", n |-> 0]
        /\ Delivered(h, "Ok") <=> Poll(h) = [out |-> "Ready", n |-> DeliveredN(h)]
        /\ Delivered(h, "Err") <=>
               Poll(h) = [out |-> "ApplicationError", n |-> DeliveredN(h)]
        /\ (chan[h].st = "closed"
              \/ (chan[h].st = "sent" /\ ~Delivered(h, "Ok") /\ ~Delivered(h, "Err")))
               <=> Poll(h) = [out |-> "TransportError", n |-> 0]

\* Three Responses held together: one cancelled when its entry was replaced,
\* one answered with an application error, one with a payload that is no
\* result.
C11_Witness ==
    /\ {0, IdSpace, IdSpace + 1} \subseteq Live
    /\ chan[0].st = "closed"
    /\ Poll(0).out = "TransportError"
    /\ Poll(IdSpace).out = "ApplicationError"
    /\ chan[IdSpace + 1].st = "sent"
    /\ Poll(IdSpace + 1).out = "TransportError"

\* ----------------------------------------------------------------- Dispatch
\* RequestBufs handed to one Dispatch.
MaxDispatched == 2

\* The names Dispatch::dispatch matches on.
RequestNames == {"Submission", "AddWorkerGroup", "AddExecutor"}

\* The RequestBufs a connection may deliver as its next request (ids count
\* up per connection): any of the three names or another one, with a payload
\* of any of the three request types or none.
DispatchRequests(c) ==
    {BufItem(consumed[c], name, msg) :
        name \in RequestNames \cup {"Ping"},
        msg \in {<<Sec(ty, 0, "")>> : ty \in RequestNames} \cup {<<>>}}

\* RequestBuf::decode::<R>: the payload popped as an R.
DecodesAs(ty, req) == pop(ty, req.msg).ok

\* The id the coordinator's add_executor returns: its generator hands out
\* the next unused one.
add_executor ==
    Cardinality(UNION {{registered[c][k] : k \in 1..Len(registered[c])} : c \in Conns})

\* The loop that feeds a Dispatch goes on while dispatch returns Ok.
Consuming(c) == conn[c] = "alive"

\* The elements of a BTreeSet in the order its iterator yields them.
RECURSIVE InOrder(_)
InOrder(S) ==
    IF S = {} THEN <<>>
    ELSE LET m == CHOOSE x \in S : \A y \in S : x <= y
         IN  <<m>> \o InOrder(S \ {m})

\* return Err(Stop::Fail(..)): nothing but the end of the loop.
DispatchFail(c) ==
    /\ conn' = [conn EXCEPT ![c] = "failed"]
    /\ UNCHANGED <<associated, tasks, replied, registered, released>>

\* A dispatch that registers the executor and answers, but keeps no token.
Dispatch_dispatchKeepsNoToken(c, req) ==
    /\ Consuming(c)
    /\ consumed[c] < MaxDispatched
    /\ consumed' = [consumed EXCEPT ![c] = @ + 1]
    /\ CASE req.name \in {"Submission", "AddWorkerGroup"} /\ DecodesAs(req.name, req) ->
              /\ tasks' = [tasks EXCEPT ![c] = Append(@, [id |-> req.id, name |-> req.name])]
              /\ UNCHANGED <<conn, associated, replied, registered, released>>
         [] req.name = "AddExecutor" /\ DecodesAs(req.name, req) ->
              /\ registered' = [registered EXCEPT ![c] = Append(@, add_executor)]
              /\ replied' = [replied EXCEPT ![c] =
                               Append(@, ResponseFrame(req.id, "Ok", add_executor))]
              /\ UNCHANGED <<conn, associated, tasks, released>>
         [] OTHER -> DispatchFail(c)
    /\ UNCHANGED <<hvars, rvars, nvars>>

\* A dispatch that skips a request it does not know and goes on.
Dispatch_dispatchSkipsUnknown(c, req) ==
    /\ Consuming(c)
    /\ consumed[c] < MaxDispatched
    /\ consumed' = [consumed EXCEPT ![c] = @ + 1]
    /\ CASE req.name \in {"Submission", "AddWorkerGroup"} /\ DecodesAs(req.name, req) ->
              /\ tasks' = [tasks EXCEPT ![c] = Append(@, [id |-> req.id, name |-> req.name])]
              /\ UNCHANGED <<conn, associated, replied, registered, released>>
         [] req.name = "AddExecutor" /\ DecodesAs(req.name, req) ->
              /\ registered' = [registered EXCEPT ![c] = Append(@, add_executor)]
              /\ associated' = [associated EXCEPT ![c] = @ \cup {add_executor}]
              /\ replied' = [replied EXCEPT ![c] =
                               Append(@, ResponseFrame(req.id, "Ok", add_executor))]
              /\ UNCHANGED <<conn, tasks, released>>
         [] req.name \in RequestNames -> DispatchFail(c)
         [] OTHER -> UNCHANGED <<conn, associated, tasks, replied, registered, released>>
    /\ UNCHANGED <<hvars, rvars, nvars>>

\* Dispatch::dispatch on the next RequestBuf of connection c: Submission and
\* AddWorkerGroup spawn a future that holds the Responder; AddExecutor
\* registers with the coordinator, keeps the token and answers with the id;
\* a payload that does not decode, or another name, is a fatal error.
Dispatch_dispatch(c, req) ==
    /\ Consuming(c)
    /\ consumed[c] < MaxDispatched
    /\ consumed' = [consumed EXCEPT ![c] = @ + 1]
    /\ CASE req.name \in {"Submission", "AddWorkerGroup"} /\ DecodesAs(req.name, req) ->
              /\ tasks' = [tasks EXCEPT ![c] = Append(@, [id |-> req.id, name |-> req.name])]
              /\ UNCHANGED <<conn, associated, replied, registered, released>>
         [] req.name = "AddExecutor" /\ DecodesAs(req.name, req) ->
              /\ registered' = [registered EXCEPT ![c] = Append(@, add_executor)]
              /\ associated' = [associated EXCEPT ![c] = @ \cup {add_executor}]
              /\ replied' = [replied EXCEPT ![c] =
                               Append(@, ResponseFrame(req.id, "Ok", add_executor))]
              /\ UNCHANGED <<conn, tasks, released>>
         [] OTHER -> DispatchFail(c)
    /\ UNCHANGED <<hvars, rvars, nvars>>

\* The future of a Submission or an AddWorkerGroup completes and its
\* Responder sends the coordinator's result, a success or an error.
TaskCompletes(c, i, tag) ==
    /\ i \in 1..Len(tasks[c])
    /\ replied' = [replied EXCEPT ![c] = Append(@, ResponseFrame(tasks[c][i].id, tag, 0))]
    /\ tasks' = [tasks EXCEPT ![c] = RemoveAt(@, i)]
    /\ UNCHANGED <<conn, associated, consumed, registered, released>>
    /\ UNCHANGED <<hvars, rvars, nvars>>

\* A drop that releases the tokens of every connection.
Dispatch_dropReleasesAll(c) ==
    /\ conn[c] # "dropped"
    /\ conn' = [conn EXCEPT ![c] = "dropped"]
    /\ released' = released \o InOrder(UNION {associated[d] : d \in Conns})
    /\ UNCHANGED <<associated, consumed, tasks, replied, registered>>
    /\ UNCHANGED <<hvars, rvars, nvars>>

\* Drop for Dispatch, when the loop over the connection's Incoming has ended
\* (end of stream, error, or a failed dispatch): remove_executor for every
\* token in the set.
Dispatch_drop(c) ==
    /\ conn[c] # "dropped"
    /\ conn' = [conn EXCEPT ![c] = "dropped"]
    /\ released' = released \o InOrder(associated[c])
    /\ UNCHANGED <<associated, consumed, tasks, replied, registered>>
    /\ UNCHANGED <<hvars, rvars, nvars>>

NextDispatch ==
    \/ \E c \in Conns : \E req \in DispatchRequests(c) : Dispatch_dispatch(c, req)
    \/ \E c \in Conns : \E i \in 1..Len(tasks[c]) : \E tag \in {"Ok", "Err"} :
           TaskCompletes(c, i, tag)
    \/ \E c \in Conns : Dispatch_drop(c)

DispatchSpec == Init /\ [][NextDispatch]_vars

\* ------------------------------------------------------------------- C12
\* The Dispatch of connection c is dropped in this step.
Dropping(c) == conn[c] # "dropped" /\ conn'[c] = "dropped"

\* What the step appends to the coordinator's remove_executor calls.
NewlyReleased == SubSeq(released', Len(released) + 1, Len(released'))

C12_DropReleasesOwn ==
    \A c \in Conns :
        Dropping(c) =>
            /\ Len(released') = Len(released) + Cardinality(Range(registered[c]))
            /\ SubSeq(released', 1, Len(released)) = released
            /\ Range(NewlyReleased) = Range(registered[c])

C12_OnlyDropReleases ==
    released' # released => \E c \in Conns : Dropping(c)

\* C12: the drop of a Dispatch calls remove_executor once for each executor
\* id an AddExecutor registered on its connection and for no other id (for
\* none if there was no AddExecutor), whether the connection was still
\* consumed or had failed; nothing else calls remove_executor.
C12_ReleasedExactlyOnce ==
    [][C12_DropReleasesOwn]_vars /\ [][C12_OnlyDropReleases]_vars

\* Connection a registered two executors and was dropped; connection b
\* registered one executor in between and lives on; the coordinator saw the
\* two ids of a released, once each, and not the id of b.
C12_Witness ==
    /\ conn = [c \in Conns |-> IF c = "a" THEN "dropped" ELSE "alive"]
    /\ registered["a"] = <<0, 2>>
    /\ registered["b"] = <<1>>
    /\ released = <<0, 2>>
    /\ consumed["a"] = MaxDispatched

\* ------------------------------------------------------------------- C13
\* Connection c hands this request to dispatch in this step.
Dispatches(c, req) == req \in DispatchRequests(c) /\ Dispatch_dispatch(c, req)
GoodAddExecutor(req) == req.name = "AddExecutor" /\ DecodesAs("AddExecutor", req)

C13_AddExecutorInserts ==
    \A c \in Conns : \A req \in DispatchRequests(c) :
        (Dispatches(c, req) /\ GoodAddExecutor(req)) =>
            /\ registered'[c] = Append(registered[c], add_executor)
            /\ associated'[c] = associated[c] \cup {add_executor}
            /\ replied'[c] = Append(replied[c], ResponseFrame(req.id, "Ok", add_executor))
            /\ conn'[c] = "alive"

C13_NothingElseChanges ==
    \A c \in Conns :
        /\ associated[c] \subseteq associated'[c]
        /\ associated'[c] # associated[c] =>
               \E req \in DispatchRequests(c) : Dispatches(c, req) /\ GoodAddExecutor(req)

\* C13: the token set of a connection changes only when a decoded AddExecutor
\* inserts the id the coordinator returned, which is also the Ok value of the
\* response; every other request, decoded or not, and every other step leaves
\* it as it is, and no token is ever removed.
C13_TokenSetChanges ==
    [][C13_AddExecutorInserts]_vars /\ [][C13_NothingElseChanges]_vars

\* A connection that handled a Submission and then an AddExecutor, whose
\* token it holds and whose id it answered.
C13_Witness ==
    /\ conn["a"] = "alive"
    /\ consumed["a"] = 2
    /\ Len(tasks["a"]) = 1
    /\ tasks["a"][1].name = "Submission"
    /\ associated["a"] = {0}
    /\ replied["a"] = <<ResponseFrame(1, "Ok", 0)>>
    /\ associated["b"] = {}

\* ------------------------------------------------------------------- C14
BadRequest(req) == req.name \notin RequestNames \/ ~DecodesAs(req.name, req)

C14_BadRequestFails ==
    \A c \in Conns : \A req \in DispatchRequests(c) :
        (Dispatches(c, req) /\ BadRequest(req)) =>
            /\ conn'[c] = "failed"
            /\ <<associated, tasks, replied, registered, released>>' =
                   <<associated, tasks, replied, registered, released>>
            /\ \A d \in Conns \ {c} : conn'[d] = conn[d] /\ consumed'[d] = consumed[d]

C14_FailedStops ==
    \A c \in Conns :
        conn[c] = "failed" =>
            /\ consumed'[c] = consumed[c]
            /\ conn'[c] \in {"failed", "dropped"}
            /\ \A k \in 1..Len(replied'[c]) :
                   Decoded(replied'[c][k]).id # consumed[c] - 1

\* C14: a request with an unknown name, or with a payload that is not of the
\* type of its name, makes dispatch return the fatal error: no handler runs,
\* nothing is registered, no response is sent for it then or later, the
\* connection consumes no further request, and the other connections go on.
C14_InvalidRequestIsFatal ==
    [][C14_BadRequestFails]_vars /\ [][C14_FailedStops]_vars

\* Connection a failed on its second request, whose name is known but whose
\* payload is not; the future of its first request answered afterwards, and
\* connection b handled two requests after that.
C14_Witness ==
    /\ conn["a"] = "failed"
    /\ consumed["a"] = 2
    /\ replied["a"] = <<ResponseFrame(0, "Err", 0)>>
    /\ tasks["a"] = <<>>
    /\ conn["b"] = "alive"
    /\ consumed["b"] = 2
    /\ registered["b"] = <<0, 1>>

\* ------------------------------------------------------------------ Channel
\* Frames one end of a Channel passes to its Sender.
MaxSends == 2

\* The k-th frame endpoint e sends: its origin and its position.
ChannelFrame(e, k) == <<Str(e), U32(k)>>

\* Items of the slot between the reader thread and the Receiver.
OkItem(msg) == [kind |-> "ok", msg |-> msg]
ReadError == [kind |-> "err", msg |-> <<>>]

\* The application passes its next frame to Sender::send.
ChannelSend(e) ==
    /\ Len(sent[e]) < MaxSends
    /\ sent' = [sent EXCEPT ![e] = Append(@, ChannelFrame(e, Len(sent[e])))]
    /\ sendq' = [sendq EXCEPT ![e] = Send(e, ChannelFrame(e, Len(sent[e])))]
    /\ UNCHANGED <<next_id, calls, chan, pending, writer, wire, shut, resolver,
                   incoming, seen, held, discarded, injected, written>>
    /\ UNCHANGED <<hvars, dvars, reader, inbox, yielded>>

\* A reader that hands over the frame it read last before the frames that
\* were read earlier (no slot: it queues, newest first).
ReaderStepNewestFirst(e) ==
    /\ reader[e] = "running"
    /\ wire[e] # <<>>
    /\ inbox' = [inbox EXCEPT ![e] = <<OkItem(Head(wire[e]))>> \o @]
    /\ wire' = [wire EXCEPT ![e] = Tail(@)]
    /\ UNCHANGED <<next_id, calls, chan, pending, sendq, writer, shut, resolver,
                   incoming, seen, held, discarded, injected, written>>
    /\ UNCHANGED <<hvars, dvars, reader, yielded, sent>>

\* One turn of the reader thread with a frame read: the frame goes into the
\* slot, which takes the next item once the Receiver has taken this one.
ReaderStep(e) ==
    /\ reader[e] = "running"
    /\ inbox[e] = <<>>
    /\ wire[e] # <<>>
    /\ inbox' = [inbox EXCEPT ![e] = <<OkItem(Head(wire[e]))>>]
    /\ wire' = [wire EXCEPT ![e] = Tail(@)]
    /\ UNCHANGED <<next_id, calls, chan, pending, sendq, writer, shut, resolver,
                   incoming, seen, held, discarded, injected, written>>
    /\ UNCHANGED <<hvars, dvars, reader, yielded, sent>>

\* A reader that passes the error on and goes on reading.
ReaderFailGoesOn(e) ==
    /\ reader[e] = "running"
    /\ inbox[e] = <<>>
    /\ shut[e] \/ (shut[Peer(e)] /\ wire[e] = <<>>) \/ (~shut[e] /\ ~shut[Peer(e)])
    /\ inbox' = [inbox EXCEPT ![e] = <<ReadError>>]
    /\ UNCHANGED <<next_id, calls, chan, pending, sendq, writer, wire, shut, resolver,
                   incoming, seen, held, discarded, injected, written>>
    /\ UNCHANGED <<hvars, dvars, reader, yielded, sent>>

\* One turn of the reader thread with a failed read (the socket was shut
\* down at this end, the peer closed and everything was read, or the
\* connection broke): the error goes into the slot, the loop ends, the
\* socket is shut down and the sending end of the slot is dropped.
ReaderFail(e) ==
    /\ reader[e] = "running"
    /\ inbox[e] = <<>>
    /\ shut[e] \/ (shut[Peer(e)] /\ wire[e] = <<>>) \/ (~shut[e] /\ ~shut[Peer(e)])
    /\ inbox' = [inbox EXCEPT ![e] = <<ReadError>>]
    /\ reader' = [reader EXCEPT ![e] = "exited"]
    /\ shut' = shutdown(shut, e)
    /\ wire' = [wire EXCEPT ![e] = <<>>]
    /\ UNCHANGED <<next_id, calls, chan, pending, sendq, writer, resolver,
                   incoming, seen, held, discarded, injected, written>>
    /\ UNCHANGED <<hvars, dvars, yielded, sent>>

\* What Receiver::poll returns in the current state: the item in the slot,
\* the end of the stream once the slot is empty and its sender is gone, or
\* not ready.
ReceiverPoll(e) ==
    CASE inbox[e] # <<>> -> Head(inbox[e])
      [] reader[e] = "exited" -> [kind |-> "end", msg |-> <<>>]
      [] OTHER -> [kind |-> "notready", msg |-> <<>>]

\* Receiver::poll yields the item in the slot.
ReceiverNext(e) ==
    /\ inbox[e] # <<>>
    /\ yielded' = [yielded EXCEPT ![e] = Append(@, Head(inbox[e]))]
    /\ inbox' = [inbox EXCEPT ![e] = Tail(@)]
    /\ UNCHANGED <<hvars, rvars, dvars, reader, sent>>

NextChannel ==
    \/ \E e \in Endpoints : ChannelSend(e)
    \/ \E e \in Endpoints : WriterStep(e)
    \/ \E e \in Endpoints : ReaderStep(e)
    \/ \E e \in Endpoints : ReaderFail(e)
    \/ \E e \in Endpoints : ReceiverNext(e)
    \/ \E e \in Endpoints : SocketClosed(e)

\* The writer and the reader threads keep running, and the application keeps
\* polling its Receiver.
ChannelFairness ==
    \A e \in Endpoints :
        /\ WF_vars(WriterStep(e))
        /\ WF_vars(ReaderStep(e))
        /\ WF_vars(ReceiverNext(e))

ChannelSpec == Init /\ [][NextChannel]_vars /\ ChannelFairness

\* ------------------------------------------------------------------- C15
\* Endpoint e passes a frame to Sender::send in this step.
Sends(e) == sent'[e] # sent[e]

C15_SendNeverBlocks ==
    \A e \in Endpoints : Len(sent[e]) < MaxSends => ENABLED ChannelSend(e)

C15_QueueOrDiscard ==
    \A e \in Endpoints :
        Sends(e) =>
            /\ sent'[e] = Append(sent[e], ChannelFrame(e, Len(sent[e])))
            /\ IF writer[e] = "running"
               THEN sendq'[e] = Append(sendq[e], ChannelFrame(e, Len(sent[e])))
               ELSE sendq'[e] = sendq[e]
            /\ sendq'[Peer(e)] = sendq[Peer(e)]
            /\ <<writer, wire, shut, written, reader, inbox, yielded>>' =
                   <<writer, wire, shut, written, reader, inbox, yielded>>

\* C15: Sender::send is always possible and has one outcome for its caller:
\* while the writer runs the frame is appended to the FIFO, after the writer
\* has exited the frame is discarded, and nothing else changes either way.
C15_SendIsSilent ==
    [](C15_SendNeverBlocks) /\ [][C15_QueueOrDiscard]_vars

\* The writer of the client exited on its first frame, which it could not
\* write; the client has sent a second frame since, and the FIFO is empty.
C15_Witness ==
    /\ writer["client"] = "exited"
    /\ Len(sent["client"]) = 2
    /\ sendq["client"] = <<>>
    /\ written["client"] = <<>>
    /\ yielded["server"] = <<ReadError>>

\* ------------------------------------------------------------------- C16
\* The frames among the items of a sequence.
RECURSIVE Frames(_)
Frames(q) ==
    IF q = <<>> THEN <<>>
    ELSE IF Head(q).kind = "ok" THEN <<Head(q).msg>> \o Frames(Tail(q))
    ELSE Frames(Tail(q))

\* The frames the Receiver of e has been given so far.
Received(e) == Frames(yielded[e] \o inbox[e])

C16_SameOrder ==
    \A e \in Endpoints :
        /\ IsPrefix(written[e], sent[e])
        /\ IsPrefix(Received(Peer(e)), written[e])

C16_Arrives ==
    \A e \in Endpoints : \A k \in 1..MaxSends :
        (Len(sent[e]) >= k) ~>
            (Len(Frames(yielded[Peer(e)])) >= k \/ \E d \in Endpoints : shut[d])

\* C16: what the peer's Receiver yields is, frame for frame and in order, a
\* prefix of what was written, which is a prefix of what was sent; and while
\* no socket is shut down, every frame sent is eventually yielded to the peer.
C16_FramesInOrder == [](C16_SameOrder) /\ C16_Arrives

\* Both ends have sent two frames and each Receiver has yielded the two
\* frames of the other end, in order, on a connection that is still open.
C16_Witness ==
    /\ \A e \in Endpoints :
         /\ Len(sent[e]) = 2
         /\ yielded[Peer(e)] = <<OkItem(ChannelFrame(e, 0)), OkItem(ChannelFrame(e, 1))>>
         /\ ~shut[e]

\* ------------------------------------------------------------------- C17
\* Everything the reader of e has handed over.
Handed(e) == yielded[e] \o inbox[e]

C17_ErrorIsLast ==
    \A e \in Endpoints :
        /\ \A k \in 1..Len(Handed(e)) :
             Handed(e)[k].kind = "err" =>
                 k = Len(Handed(e)) /\ reader[e] = "exited" /\ shut[e]
        /\ (reader[e] = "exited" /\ inbox[e] = <<>>) =>
             /\ ReceiverPoll(e).kind = "end"
             /\ yielded[e] # <<>>
             /\ yielded[e][Len(yielded[e])] = ReadError

C17_StopsAtError ==
    \A e \in Endpoints :
        /\ ReaderFail(e) =>
             /\ Handed(e)' = Append(Handed(e), ReadError)
             /\ reader'[e] = "exited"
             /\ shut'[e]
        /\ reader[e] = "exited" =>
             /\ Handed(e)' = Handed(e)
             /\ reader'[e] = "exited"

\* C17: the Receiver yields the frames read until a read fails; that error
\* is handed over once, as the last item, by a reader that has stopped and
\* shut the socket down, and after it the stream is at its end.
C17_ErrorOnceThenEnd == [](C17_ErrorIsLast) /\ [][C17_StopsAtError]_vars

\* The server's Receiver yielded a frame of the client and then the error of
\* the read that failed, and its stream has ended.
C17_Witness ==
    /\ yielded["server"] = <<OkItem(ChannelFrame("client", 0)), ReadError>>
    /\ ReceiverPoll("server").kind = "end"
    /\ shut["server"]
    /\ Len(sent["client"]) = 2

\* ------------------------------------------------------- dropped requests
\* A RequestBuf the stream yielded and the application dropped, as it is
\* kept in `seen`.
DroppedItem(item) == [item EXCEPT !.kind = "dropped"]

\* A dropped RequestBuf that answers its request with an error.
IncomingDropAnswers(e) ==
    /\ incoming[e] # <<>>
    /\ Head(incoming[e]).kind = "buf"
    /\ incoming' = [incoming EXCEPT ![e] = Tail(@)]
    /\ seen' = [seen EXCEPT ![e] = Append(@, DroppedItem(Head(incoming[e])))]
    /\ sendq' = [sendq EXCEPT ![e] =
                   Send(e, ResponseFrame(Head(incoming[e]).id, "Err", 0))]
    /\ UNCHANGED <<next_id, calls, chan, pending, writer, wire, shut,
                   resolver, held, discarded, injected, written>>
    /\ UNCHANGED <<hvars, dvars, nvars>>

\* Incoming::poll yields a RequestBuf and the application drops it without
\* decoding it: RequestBuf has no Drop of its own, its fields are freed.
IncomingDrop(e) ==
    /\ incoming[e] # <<>>
    /\ Head(incoming[e]).kind = "buf"
    /\ incoming' = [incoming EXCEPT ![e] = Tail(@)]
    /\ seen' = [seen EXCEPT ![e] = Append(@, DroppedItem(Head(incoming[e])))]
    /\ UNCHANGED <<next_id, calls, chan, pending, sendq, writer, wire, shut,
                   resolver, held, discarded, injected, written>>
    /\ UNCHANGED <<hvars, dvars, nvars>>

\* The connection with a server application that answers some requests and
\* drops others, Responses that are dropped, and sockets that are closed.
NextDrop ==
    \/ \E x \in Payloads(next_id) : RequestBegin(x)
    \/ \E h \in DOMAIN calls : request(h)
    \/ \E h \in DOMAIN calls : ResponseDrop(h)
    \/ \E e \in Endpoints : WriterStep(e)
    \/ \E e \in Endpoints : ResolverFrame(e)
    \/ \E e \in Endpoints : ResolverEof(e)
    \/ \E e \in Endpoints : IncomingNext(e)
    \/ \E e \in Endpoints : IncomingDrop(e)
    \/ \E e \in Endpoints : \E i \in 1..Len(held[e]) : Respond(e, i)
    \/ \E e \in Endpoints : SocketClosed(e)

DropSpec == Init /\ [][NextDrop]_vars

\* ------------------------------------------------------------------- C18
\* The ids of the RequestBufs the server application dropped.
DroppedIds == {seen["server"][k].id :
                  k \in {j \in 1..Len(seen["server"]) : seen["server"][j].kind = "dropped"}}

\* The frames the server has passed to its Sender and not lost, wherever
\* they are.
ServerFrames == Range(sendq["server"]) \cup Range(written["server"]) \cup Range(wire["client"])

\* C18: for a RequestBuf that was dropped undecoded, no response frame with
\* its id exists anywhere on the connection, and the requester's Response,
\* while it is held, is not ready and its entry stays in the table: it never
\* resolves to a value.
C18_DroppedRequestUnanswered ==
    \A i \in DroppedIds :
        /\ \A f \in ServerFrames : IsResponse(f) => Decoded(f).id # i
        /\ \A h \in DOMAIN calls :
             (calls[h].id = i /\ calls[h].pc = "returned") =>
                 /\ Poll(h).out = "NotReady"
                 /\ Stored(pending["client"], i) = {h}

\* The server dropped the first request and answered the second; the second
\* Response has resolved, the first is still not ready, the server holds
\* nothing more, and the connection is open.
C18_Witness ==
    /\ DroppedIds = {0}
    /\ Len(seen["server"]) = 2
    /\ held["server"] = <<>>
    /\ sendq["server"] = <<>>
    /\ wire["client"] = <<>>
    /\ calls[0].pc = "returned"
    /\ Poll(0).out = "NotReady"
    /\ Poll(1) = [out |-> "Ready", n |-> PingHandler(calls[1].x)]
    /\ \A e \in Endpoints : ~shut[e]

\* ------------------------------------------------------------------- C19
C19_IdsDiffer ==
    /\ DOMAIN calls = 0..(next_id - 1)
    /\ \A g, h \in DOMAIN calls : g < h => calls[g].id < calls[h].id

C19_FetchAdd ==
    next_id' # next_id =>
        /\ next_id' = next_id + 1
        /\ DOMAIN calls' = DOMAIN calls \cup {next_id}
        /\ calls'[next_id].id = next_id
        /\ \A h \in DOMAIN calls : calls'[h].id = calls[h].id

\* C19: the counter starts at 0 and every request() draws its value and adds
\* one in a single step, so, while the counter is below the id space, calls
\* that overlap in any way get different ids, increasing in the order of the
\* draws.
C19_UniqueIncreasingIds ==
    [](next_id < IdSpace => C19_IdsDiffer) /\ [][next_id < IdSpace => C19_FetchAdd]_vars

\* Two request() calls under way together, the second having drawn its id
\* before the first inserted its entry.
C19_Witness ==
    /\ DOMAIN calls = {0, 1}
    /\ calls[0].pc = "alloc"
    /\ calls[1].pc = "inserted"
    /\ calls[0].id = 0
    /\ calls[1].id = 1

\* ------------------------------------------------------------------- C20
\* The calls whose entry request() has inserted and that were neither
\* answered nor dropped.
Waiting(h) == calls[h].pc \in {"inserted", "returned"} /\ chan[h].st # "sent"

\* C20: also after the counter has wrapped, the request() calls that wait for
\* an answer have different ids, each has its own entry in the pending
\* table, and none has lost its sender to the insert of another call.
C20_LiveIdsUnique ==
    \A g, h \in DOMAIN calls :
        (Waiting(g) /\ Waiting(h) /\ g # h) =>
            /\ calls[g].id # calls[h].id
            /\ Stored(pending["client"], calls[g].id) = {g}
            /\ chan[g].st = "open"

\* After the wrap a request() drew id 0 while the first request was still
\* outstanding under id 0: the insert replaced its entry, the first Response
\* is cancelled, and the server's answer to the first request, Pong(2), has
\* resolved the new Response, which asked Ping(5).
C20_Witness ==
    /\ IdSpace \in DOMAIN calls
    /\ calls[IdSpace].id = calls[0].id
    /\ calls[0].pc = "returned"
    /\ Poll(0).out = "TransportError"
    /\ calls[IdSpace].x = IdSpace + 1
    /\ Poll(IdSpace) = [out |-> "Ready", n |-> PingHandler(calls[0].x)]

\* ------------------------------------------------ dropped Incoming stream
\* The application drops its Incoming stream: the receiver of the request
\* queue is gone and what was still queued is freed with it.
IncomingStreamDrop(e) ==
    /\ incoming_rx[e] = "alive"
    /\ incoming_rx' = [incoming_rx EXCEPT ![e] = "dropped"]
    /\ incoming' = [incoming EXCEPT ![e] = <<>>]
    /\ UNCHANGED <<next_id, calls, chan, pending, sendq, writer, wire, shut,
                   resolver, seen, held, discarded, injected, written>>
    /\ UNCHANGED <<outgoing, lock, dvars, nvars>>

\* A client that only issues requests and has dropped its Incoming stream
\* (as the ping test does with `let (tx, _)`), a server that may do the same,
\* and a peer that sends the client a request all the same.
NextReceiver ==
    \/ \E x \in Payloads(next_id) : RequestBegin(x)
    \/ \E h \in DOMAIN calls : request(h)
    \/ \E e \in Endpoints : IncomingStreamDrop(e)
    \/ \E e \in Endpoints : WriterStep(e)
    \/ \E e \in Endpoints : ResolverFrame(e)
    \/ \E e \in Endpoints : IncomingNext(e)
    \/ \E e \in Endpoints : \E i \in 1..Len(held[e]) : Respond(e, i)
    \/ incoming_rx["client"] = "dropped" /\ Inject(RequestFrame(0, 1))

ReceiverSpec == Init /\ [][NextReceiver]_vars

\* ------------------------------------------------------------------- C21
\* The Resolver of endpoint e takes the frame at the head of its socket in
\* this step.
ResolverReads(e) ==
    /\ resolver[e] = "running"
    /\ wire[e] # <<>>
    /\ Len(wire'[e]) < Len(wire[e])

\* C21, first half: a request frame decoded after the Incoming receiver was
\* dropped is consumed and nothing else happens: no RequestBuf is queued,
\* yielded or held, no frame is sent, the table and the Responses are
\* untouched, and the Resolver keeps running on an open socket.
C21_RequestIgnored ==
    \A e \in Endpoints :
        (/\ ResolverReads(e)
         /\ incoming_rx[e] = "dropped"
         /\ Decoded(Head(wire[e])).branch = "Request")
        => /\ wire'[e] = Tail(wire[e])
           /\ resolver'[e] = "running"
           /\ shut' = shut
           /\ incoming' = incoming
           /\ seen' = seen
           /\ held' = held
           /\ sendq' = sendq
           /\ pending' = pending
           /\ chan' = chan

\* C21, second half: with the receiver dropped, a response frame for a
\* pending entry still completes the Response of that entry.
C21_ResponsesStillComplete ==
    \A e \in Endpoints :
        (/\ ResolverReads(e)
         /\ incoming_rx[e] = "dropped"
         /\ Decoded(Head(wire[e])).branch = "Response"
         /\ Decoded(Head(wire[e])).id \in DOMAIN pending[e])
        => LET d == Decoded(Head(wire[e])) IN
             /\ resolver'[e] = "running"
             /\ pending'[e] = TableRemove(pending[e], d.id)
             /\ chan'[pending[e][d.id]] = ChanSent(d.rest, d.id)

\* C21: a request that reaches an endpoint whose Incoming receiver was
\* dropped is ignored without being treated as an error; the Resolver keeps
\* running and later response frames still complete their Responses.
C21_DroppedReceiverIgnoresRequests ==
    [][C21_RequestIgnored /\ C21_ResponsesStillComplete]_vars

\* The client dropped its Incoming stream, the peer's request was decoded
\* after that and left no trace, and the answer to the client's own call
\* arrived behind it: the Resolver is running and about to complete it.
C21_Witness ==
    /\ incoming_rx["client"] = "dropped"
    /\ injected = 1
    /\ resolver["client"] = "running"
    /\ incoming["client"] = <<>>
    /\ seen["client"] = <<>>
    /\ 0 \in DOMAIN calls
    /\ calls[0].pc = "returned"
    /\ chan[0] = ChanOpen
    /\ wire["client"] = <<ResponseFrame(0, "Ok", PingHandler(calls[0].x))>>

\* ------------------------------------------------------ failing responses
\* The connection from its start with a server application that answers with
\* a result or with an error, and a peer that answers with something that is
\* no result.
AnswerSpec == Init /\ [][NextLate]_vars

\* ------------------------------------------------------------------- C22
\* A Response whose channel holds a payload that is no success yields an
\* error, and which one: the io::Error of the failed decode, or the
\* application's error.
C22_FailsItsResponse ==
    \A h \in DOMAIN chan :
        (chan[h].st = "sent" /\ FailsToResolve(chan[h].msg))
        => Poll(h).out = IF pop("Result", chan[h].msg).ok
                         THEN "ApplicationError" ELSE "TransportError"

\* The Resolver reads a response frame whose payload is no success: only the
\* entry of its id leaves the table and only the channel of that entry
\* changes; nothing is pushed onto Incoming, and the Resolver keeps running
\* on an open socket.
C22_OnlyThatResponse ==
    \A e \in Endpoints :
        (/\ ResolverReads(e)
         /\ Decoded(Head(wire[e])).branch = "Response"
         /\ FailsToResolve(Decoded(Head(wire[e])).rest))
        => LET d == Decoded(Head(wire[e])) IN
             /\ wire'[e] = Tail(wire[e])
             /\ resolver' = resolver
             /\ shut' = shut
             /\ incoming' = incoming
             /\ seen' = seen
             /\ pending'[e] = TableRemove(pending[e], d.id)
             /\ pending'[Peer(e)] = pending[Peer(e)]
             /\ \A h \in DOMAIN chan :
                    (d.id \notin DOMAIN pending[e] \/ h # pending[e][d.id])
                    => chan'[h] = chan[h]
             /\ d.id \in DOMAIN pending[e] /\ calls[pending[e][d.id]].pc = "returned"
                => chan'[pending[e][d.id]] = ChanSent(d.rest, d.id)

\* C22: a response frame whose payload does not decode as the result type,
\* or that carries an application error, fails the Response with its id and
\* nothing else: the Resolver does not terminate, Incoming gets nothing and
\* the other pending entries and Responses are unchanged.
C22_BadPayloadFailsOneResponse ==
    []C22_FailsItsResponse /\ [][C22_OnlyThatResponse]_vars

\* The first request was answered by a frame without a result and failed
\* with an io::Error; the Resolver is still running, Incoming got nothing,
\* and the second request has been resolved by the server's answer.
C22_Witness ==
    /\ DOMAIN calls = 0..1
    /\ chan[0] = ChanSent(<<>>, 0)
    /\ Poll(0).out = "TransportError"
    /\ Poll(1) = [out |-> "Ready", n |-> PingHandler(calls[1].x)]
    /\ resolver["client"] = "running"
    /\ ~shut["client"]
    /\ incoming["client"] = <<>>
    /\ seen["client"] = <<>>
    /\ pending["client"] = EmptyTable

\* ------------------------------------------------------ repeated shutdown
\* One connection with all three kinds of worker on it: the client end is a
\* multiplexed connection (a writer and a Resolver), the server end a plain
\* Channel (a writer and a reader).  Either end sends, and either socket may
\* be closed from outside.
NextShutdown ==
    \/ \E x \in Payloads(next_id) : RequestBegin(x)
    \/ \E h \in DOMAIN calls : request(h)
    \/ ChannelSend("server")
    \/ \E e \in Endpoints : WriterStep(e)
    \/ ResolverFrame("client")
    \/ ResolverEof("client")
    \/ ReaderStep("server")
    \/ ReaderFail("server")
    \/ ReceiverNext("server")
    \/ \E e \in Endpoints : SocketClosed(e)

ShutdownSpec == Init /\ [][NextShutdown]_vars

\* ------------------------------------------------------------------- C23
\* A worker of endpoint e ends in this step.
WorkerExits(e) ==
    \/ writer[e] = "running" /\ writer'[e] = "exited"
    \/ resolver[e] = "running" /\ resolver'[e] = "exited"
    \/ reader[e] = "running" /\ reader'[e] = "exited"

\* Shutting down twice is shutting down once, and shutting down a socket
\* that is shut down already changes nothing.
C23_Idempotent ==
    \A e \in Endpoints :
        /\ shutdown(shutdown(shut, e), e) = shutdown(shut, e)
        /\ shut[e] => shutdown(shut, e) = shut

\* A worker whose socket was shut down by another is not held up by that:
\* the Resolver's and the reader's read return, and the writer's write fails,
\* so each can take the step that ends it.
C23_NoBlock ==
    \A e \in Endpoints :
        /\ (shut[e] /\ resolver[e] = "running") => ENABLED ResolverEof(e)
        /\ (shut[e] /\ reader[e] = "running" /\ inbox[e] = <<>>) => ENABLED ReaderFail(e)
        /\ (shut[e] /\ writer[e] = "running" /\ sendq[e] # <<>>) => ENABLED WriterStep(e)

\* Every worker that ends shuts its socket down.  If the socket was shut
\* down before, the step changes no socket, nothing on the way to the peer,
\* no Response and no table, and the shutdown itself reports nothing: the
\* writer hands nothing to the application, and the Resolver nothing but
\* what it read.
C23_ExitShutsDown ==
    \A e \in Endpoints :
        WorkerExits(e)
        => /\ shut' = shutdown(shut, e)
           /\ shut[e]
              => /\ shut' = shut
                 /\ wire'[Peer(e)] = wire[Peer(e)]
                 /\ written' = written
                 /\ chan' = chan
                 /\ pending' = pending
                 /\ seen' = seen
                 /\ yielded' = yielded
                 /\ writer'[e] # writer[e] => (incoming' = incoming /\ inbox' = inbox)
                 /\ (resolver'[e] # resolver[e] /\ wire[e] = <<>>) => incoming' = incoming

Drops(h) == calls[h].pc = "returned" /\ calls'[h].pc = "dropped"

\* The client's Resolver reads a response frame with id i in this step.
ResolvesId(i) ==
    /\ ResolverFrame("client")
    /\ Decoded(Head(wire["client"])).branch = "Response"
    /\ Decoded(Head(wire["client"])).id = i

\* An entry that leaves the client's table is taken out either by the drop
\* of its Response or by the Resolver reading a response frame with its id,
\* never by both and by nothing else, and every other entry stays.
C24_TakenByOne ==
    \A i \in DOMAIN pending["client"] :
        i \notin DOMAIN pending'["client"]
        => /\ Drops(pending["client"][i]) # ResolvesId(i)
           /\ \A j \in DOMAIN pending["client"] \ {i} :
                  /\ j \in DOMAIN pending'["client"]
                  /\ pending'["client"][j] = pending["client"][j]

\* The one that comes second finds no entry and changes neither the table
\* nor any Response; the Resolver logs the frame it discards.
C24_SecondFindsNothing ==
    /\ \A h \in DOMAIN calls :
           (Drops(h) /\ calls[h].id \notin DOMAIN pending["client"])
           => (pending' = pending /\ chan' = chan)
    /\ \A i \in 0..MaxRequests :
           (ResolvesId(i) /\ i \notin DOMAIN pending["client"])
           => /\ pending' = pending
              /\ chan' = chan
              /\ i \in discarded'["client"]

\* Once the Response is dropped or completed, no entry is left under its id.
C24_NoEntryLeft ==
    \A h \in DOMAIN calls :
        (calls[h].pc = "dropped" \/ chan[h].st = "sent")
        => calls[h].id \notin DOMAIN pending["client"]

\* C24: whichever of Response::drop and the Resolver's response branch comes
\* first for an id takes the entry out of the table, the other finds none;
\* in both orders the table ends without the entry and no other entry is
\* touched.
C24_DropRacesResolver ==
    []C24_NoEntryLeft /\ [][C24_TakenByOne /\ C24_SecondFindsNothing]_vars

\* Both orders: the first Response was completed by the Resolver and dropped
\* afterwards; the second was dropped first and the Resolver discarded the
\* answer to it.  The table is empty.
C24_Witness ==
    /\ DOMAIN calls = 0..1
    /\ calls[0].pc = "dropped"
    /\ chan[0] = ChanSent(HonestReply(0), calls[0].id)
    /\ calls[1].pc = "dropped"
    /\ chan[1] = ChanClosed
    /\ discarded["client"] = {calls[1].id}
    /\ pending["client"] = EmptyTable

\* ------------------------------------------------------------------- C25
\* C25: dropping a Response, pending or completed, leaves the entry and the
\* channel of every other Response as they are: it removes no entry that
\* request() inserted for another call and fails no other Response.
C25_DropRemovesOwnEntryOnly ==
    [][\A h \in DOMAIN calls :
         Drops(h) =>
             \A g \in DOMAIN calls \ {h} :
                 /\ chan'[g] = chan[g]
                 /\ \A i \in DOMAIN pending["client"] :
                        pending["client"][i] = g
                        => /\ i \in DOMAIN pending'["client"]
                           /\ pending'["client"][i] = g]_vars

\* The first Response was completed by the server's answer and kept; after
\* the wrap a new request was inserted under the same id, and then the first
\* Response was dropped: the new request, still unanswered, has lost its
\* entry and its sender and fails with "request canceled".
C25_Witness ==
    /\ IdSpace \in DOMAIN calls
    /\ calls[IdSpace].id = calls[0].id
    /\ calls[0].pc = "dropped"
    /\ chan[0] = ChanSent(HonestReply(0), calls[0].id)
    /\ calls[IdSpace].pc = "returned"
    /\ chan[IdSpace] = ChanClosed
    /\ Poll(IdSpace).out = "TransportError"
    /\ calls[0].id \notin DOMAIN pending["client"]

\* ------------------------------------------------- the pending-table mutex
\* The three critical sections of the client's table, each as the thread
\* that runs it takes them: the lock is requested and obtained in one step
\* once it is free, and the one operation on the table and the release of
\* the guard are the next step of that thread.

\* request(), step 2: self.pending.lock().
RequestLock(h) ==
    /\ calls[h].pc = "alloc"
    /\ lock = Free
    /\ lock' = Holder("request", h)
    /\ UNCHANGED <<rvars, dvars, nvars, incoming_rx, outgoing>>

\* A request() that keeps the guard after the insert and never lets it go.
RequestInsertKeepsLock(h) ==
    /\ lock = Holder("request", h)
    /\ calls[h].pc = "alloc"
    /\ RequestInsert(h)
    /\ calls' = [calls EXCEPT ![h].pc = "inserted"]
    /\ UNCHANGED <<next_id, writer, wire, shut, resolver, incoming, seen,
                   held, discarded, injected, written>>
    /\ UNCHANGED <<dvars, nvars, incoming_rx, outgoing, lock>>

\* request(), step 2: the insert, and the guard dropped at the end of the
\* block.
RequestInsertLocked(h) ==
    /\ lock = Holder("request", h)
    /\ calls[h].pc = "alloc"
    /\ RequestInsert(h)
    /\ calls' = [calls EXCEPT ![h].pc = "inserted"]
    /\ lock' = Free
    /\ UNCHANGED <<next_id, writer, wire, shut, resolver, incoming, seen,
                   held, discarded, injected, written>>
    /\ UNCHANGED <<dvars, nvars, incoming_rx, outgoing>>

\* request(), steps 3 and 4, outside the lock.
RequestSendUnlocked(h) ==
    /\ calls[h].pc = "inserted"
    /\ request(h)

\* The application lets go of a Response: Drop for Response starts.
ResponseDropBegin(h) ==
    /\ calls[h].pc = "returned"
    /\ calls' = [calls EXCEPT ![h].pc = "dropping"]
    /\ UNCHANGED <<next_id, chan, pending, sendq, writer, wire, shut, resolver,
                   incoming, seen, held, discarded, injected, written>>
    /\ UNCHANGED <<hvars, dvars, nvars>>

\* Drop for Response: self.pending.lock().
ResponseDropLock(h) ==
    /\ calls[h].pc = "dropping"
    /\ lock = Free
    /\ lock' = Holder("drop", h)
    /\ UNCHANGED <<rvars, dvars, nvars, incoming_rx, outgoing>>

\* Drop for Response: the remove, and the guard dropped at the end of the
\* if-let.
ResponseDropLocked(h) ==
    /\ lock = Holder("drop", h)
    /\ pending' = [pending EXCEPT !["client"] = TableRemove(@, calls[h].id)]
    /\ chan' = DropSenders(chan, Stored(pending["client"], calls[h].id))
    /\ calls' = [calls EXCEPT ![h].pc = "dropped"]
    /\ lock' = Free
    /\ UNCHANGED <<next_id, sendq, writer, wire, shut, resolver, incoming,
                   seen, held, discarded, injected, written>>
    /\ UNCHANGED <<dvars, nvars, incoming_rx, outgoing>>

\* The Resolver has read a response frame: self.pending.lock().
ResolverLock ==
    /\ resolver["client"] = "running"
    /\ wire["client"] # <<>>
    /\ Decoded(Head(wire["client"])).branch = "Response"
    /\ lock = Free
    /\ lock' = Holder("resolver", 0)
    /\ UNCHANGED <<rvars, dvars, nvars, incoming_rx, outgoing>>

\* The Response branch under the lock: the remove and the one-shot send,
\* and the guard dropped at the end of the branch.
ResolverLocked ==
    /\ lock = Holder("resolver", 0)
    /\ DecodeResponse("client", Decoded(Head(wire["client"])))
    /\ lock' = Free
    /\ UNCHANGED <<next_id, calls, sendq, writer, seen, held, injected, written>>
    /\ UNCHANGED <<dvars, nvars, incoming_rx, outgoing>>

\* Requesters, droppers and the client's Resolver contend for the table while
\* the server answers.
NextLock ==
    \/ \E x \in Payloads(next_id) : RequestBegin(x)
    \/ \E h \in DOMAIN calls : RequestLock(h)
    \/ \E h \in DOMAIN calls : RequestInsertLocked(h)
    \/ \E h \in DOMAIN calls : RequestSendUnlocked(h)
    \/ \E h \in DOMAIN calls : ResponseDropBegin(h)
    \/ \E h \in DOMAIN calls : ResponseDropLock(h)
    \/ \E h \in DOMAIN calls : ResponseDropLocked(h)
    \/ ResolverLock
    \/ ResolverLocked
    \/ \E e \in Endpoints : WriterStep(e)
    \/ ResolverFrame("server")
    \/ IncomingNext("server")
    \/ \E i \in 1..Len(held["server"]) : Respond("server", i)

\* Every thread that can take a step is scheduled in the end, and a thread
\* blocked in lock() is woken once the mutex is free.  When to issue a
\* request and when to drop a Response is up to the application.
LockFairness ==
    /\ \A h \in Calls :
        /\ WF_vars(h \in DOMAIN calls /\ RequestLock(h))
        /\ WF_vars(h \in DOMAIN calls /\ RequestInsertLocked(h))
        /\ WF_vars(h \in DOMAIN calls /\ RequestSendUnlocked(h))
        /\ WF_vars(h \in DOMAIN calls /\ ResponseDropLock(h))
        /\ WF_vars(h \in DOMAIN calls /\ ResponseDropLocked(h))
    /\ WF_vars(ResolverLock)
    /\ WF_vars(ResolverLocked)
    /\ \A e \in Endpoints : WF_vars(WriterStep(e))
    /\ WF_vars(ResolverFrame("server"))
    /\ WF_vars(IncomingNext("server"))
    /\ WF_vars(\E i \in 1..Len(held["server"]) : Respond("server", i))

LockSpec == Init /\ [][NextLock]_vars /\ LockFairness

\* ------------------------------------------------------------------- C26
\* Call h is in request() before its insert, and so about to lock or locked.
InRequestLock(h) == h \in DOMAIN calls /\ calls[h].pc = "alloc"
\* The Response of call h is in its drop, before the remove.
InDropLock(h) == h \in DOMAIN calls /\ calls[h].pc = "dropping"
\* The Resolver has a response frame to process.
InResolverLock ==
    /\ resolver["client"] = "running"
    /\ wire["client"] # <<>>
    /\ Decoded(Head(wire["client"])).branch = "Response"

\* Whoever holds the lock is in the critical section it names, and the step
\* that ends this section needs nothing from any other thread.
C26_HolderCanFinish ==
    /\ lock.by = "request" => InRequestLock(lock.h) /\ ENABLED RequestInsertLocked(lock.h)
    /\ lock.by = "drop" => InDropLock(lock.h) /\ ENABLED ResponseDropLocked(lock.h)
    /\ lock.by = "resolver" => InResolverLock /\ ENABLED ResolverLocked

\* The lock is taken only when it is free, and the step of a holder frees it:
\* one insert or one remove per hold.
C26_OneOperationPerHold ==
    /\ lock' # lock => (lock = Free \/ lock' = Free)
    /\ lock # Free => (pending' # pending => lock' = Free)

\* C26: the mutex of the pending table causes no deadlock: a holder is never
\* waiting for another thread and gives the lock back after one operation,
\* and every thread that requests the lock obtains it and leaves its
\* critical section.
C26_NoDeadlock ==
    /\ []C26_HolderCanFinish
    /\ [][C26_OneOperationPerHold]_vars
    /\ (lock # Free) ~> (lock = Free)
    /\ \A h \in Calls :
        /\ InRequestLock(h) ~> (h \in DOMAIN calls /\ calls[h].pc = "inserted")
        /\ InDropLock(h) ~> (h \in DOMAIN calls /\ calls[h].pc = "dropped")
    /\ InResolverLock ~> (lock = Holder("resolver", 0))

\* A request() holds the lock while the drop of the first Response and the
\* Resolver, with the response frame for that same Response, both wait for
\* it.
C26_Witness ==
    /\ lock = Holder("request", 1)
    /\ InDropLock(0)
    /\ InResolverLock
    /\ Decoded(Head(wire["client"])).id = calls[0].id

\* ------------------------------------------------------- dropped handles
\* The Senders of endpoint e that are alive: the one in its Outgoing handles,
\* the clone the Resolver keeps for as long as its thread runs, and the
\* origin of every RequestBuf still queued and of every Responder held.
SendersAlive(e) ==
    \/ outgoing[e] = "alive"
    \/ resolver[e] = "running"
    \/ held[e] # <<>>
    \/ \E k \in 1..Len(incoming[e]) : incoming[e][k].kind = "buf"

\* The application drops its Outgoing and all clones of it; a request() in
\* progress borrows its handle, which cannot be dropped meanwhile.
OutgoingDrop(e) ==
    /\ outgoing[e] = "alive"
    /\ e = "client" => \A h \in DOMAIN calls : calls[h].pc \notin {"alloc", "inserted"}
    /\ outgoing' = [outgoing EXCEPT ![e] = "dropped"]
    /\ UNCHANGED <<rvars, dvars, nvars, incoming_rx, lock>>

\* The application drops a Responder without answering: it has no Drop of
\* its own, its origin Sender is freed.
ResponderDrop(e, i) ==
    /\ i \in 1..Len(held[e])
    /\ held' = [held EXCEPT ![e] = RemoveAt(@, i)]
    /\ UNCHANGED <<next_id, calls, chan, pending, sendq, writer, wire, shut,
                   resolver, incoming, seen, discarded, injected, written>>
    /\ UNCHANGED <<hvars, dvars, nvars>>

\* The writer thread's recv() fails: the FIFO is empty and every Sender is
\* gone.  The loop ends and the socket is shut down.
WriterClosed(e) ==
    /\ writer[e] = "running"
    /\ sendq[e] = <<>>
    /\ ~SendersAlive(e)
    /\ writer' = [writer EXCEPT ![e] = "exited"]
    /\ shut' = shutdown(shut, e)
    /\ UNCHANGED <<next_id, calls, chan, pending, sendq, wire, resolver,
                   incoming, seen, held, discarded, injected, written>>
    /\ UNCHANGED <<hvars, dvars, nvars>>

\* A connection whose applications issue and answer requests and, whenever
\* they choose, drop their handles; a socket may also be closed from outside.
NextOwner ==
    \/ \E x \in Payloads(next_id) : RequestBegin(x)
    \/ \E h \in DOMAIN calls : request(h)
    \/ \E e \in Endpoints : WriterStep(e)
    \/ \E e \in Endpoints : WriterClosed(e)
    \/ \E e \in Endpoints : ResolverFrame(e)
    \/ \E e \in Endpoints : ResolverEof(e)
    \/ \E e \in Endpoints : IncomingNext(e)
    \/ \E e \in Endpoints : \E i \in 1..Len(held[e]) : Respond(e, i)
    \/ \E e \in Endpoints : \E i \in 1..Len(held[e]) : ResponderDrop(e, i)
    \/ \E e \in Endpoints : OutgoingDrop(e)
    \/ \E e \in Endpoints : IncomingStreamDrop(e)
    \/ \E e \in Endpoints : SocketClosed(e)

\* The worker threads keep running and an application that holds a request
\* goes on with it; when handles are dropped, and whether a socket is closed
\* from outside, is up to the applications.
OwnerFairness ==
    /\ WF_vars(\E h \in DOMAIN calls : request(h))
    /\ \A e \in Endpoints :
        /\ WF_vars(WriterStep(e))
        /\ WF_vars(WriterClosed(e))
        /\ WF_vars(ResolverFrame(e))
        /\ WF_vars(ResolverEof(e))
        /\ WF_vars(IncomingNext(e))

OwnerSpec == Init /\ [][NextOwner]_vars /\ OwnerFairness

\* ------------------------------------------------------------------- C27
\* Endpoint e has dropped its Outgoing handles, its Incoming stream and
\* every RequestBuf and Responder.
AllDropped(e) ==
    /\ outgoing[e] = "dropped"
    /\ incoming_rx[e] = "dropped"
    /\ incoming[e] = <<>>
    /\ held[e] = <<>>

\* The connection of e is released: its workers have ended and its socket is
\* shut down.
Released(e) ==
    /\ writer[e] = "exited"
    /\ resolver[e] = "exited"
    /\ shut[e]

\* C27: once an endpoint has dropped all its handles, its connection is
\* eventually released: the writer and the Resolver exit and the socket is
\* shut down.
C27_DroppedHandlesRelease ==
    \A e \in Endpoints : AllDropped(e) ~> Released(e)

\* The client has dropped everything and no frame is queued or on its way to
\* it, the peer is alive: the client's Resolver still runs, blocked in its
\* read and holding its clone of the Sender, so the writer still waits on the
\* FIFO, and the socket is open.
C27_Witness ==
    /\ AllDropped("client")
    /\ sendq["client"] = <<>>
    /\ wire["client"] = <<>>
    /\ resolver["client"] = "running"
    /\ writer["client"] = "running"
    /\ ~shut["client"]
    /\ ~shut["server"]
    /\ ~ENABLED WriterClosed("client")
    /\ ~ENABLED ResolverEof("client")
    /\ ~ENABLED ResolverFrame("client")
    /\ ~ENABLED WriterStep("client")

====
